---- MODULE Spec2Model ----
(***************************************************************************)
(* A model of jepsen-rs: the JepsenClient orchestrator and its per-id      *)
(* workers (src/src/client.rs), the history list (src/src/history.rs) and  *)
(* the operation values (src/src/op.rs).                                   *)
(*                                                                         *)
(* Option<T> is modelled as a sequence of length at most one: <<>> is None *)
(* and <<v>> is Some(v).                                                   *)
(***************************************************************************)
EXTENDS Integers, Sequences, FiniteSets, TLC

\* ------------------------------------------------------------------ bounds

\* The number of (op, id) pairs the top-level group yields before it ends.
MaxOps == 2
\* The monotonic clock is observed at 0..MaxClock nanoseconds.
MaxClock == 1
\* The number of pushes made by the callers of the history list in HistSpec.
MaxHist == 3
\* The number of elements taken from the raw generator in GenSpec.
MaxRaw == 2
\* The number of generators alive at a time in GenSpec.
MaxGens == 2
\* The number of elements of all the children of a group in GroupSpec.
MaxTotal == 4
\* The quota of a child of a group is 0..MaxQuota.
MaxQuota == 2
\* The number of calls of take_seq in RawSpec.
MaxCalls == 3
\* The size of a cluster in NetSpec is 1..MaxServers.
MaxServers == 6

\* The number of records that are executed in a run.
MaxExec == 2

\* The number of records that are pushed into a register.
MaxPush == 3

\* The number of calls of choose on one strategy.
MaxChoose == 3

\* usize::MAX, written as the number it is congruent to modulo 2^64.
UsizeMax == -1

\* ------------------------------------------------------------- op values

\* The ids gen.next_with_id() returns with an op: the ids of two generators
\* of the top-level group. Each id names a worker and is the `process` of its
\* history entries.
Ids == {0, 1}

None == <<>>

Some(v) == <<v>>

\* Op::Read(key, value)
Read(k, v) == [tag |-> "r", key |-> k, val |-> v]

\* Op::Write(key, value)
Write(k, v) == [tag |-> "w", key |-> k, val |-> Some(v)]

\* Op::Txn(ops)
Txn(ops) == [tag |-> "txn", ops |-> ops]

\* impl From<&Op> for OpFunctionType
OpFunctionType(op) == op.tag

\* The key space of the cluster.
Keys == {1}

\* What the raw generator yields: the three ops of TestOpGen::gen.
OpUniverse ==
    { Read(1, Some(1)), Write(1, 1),
      Txn(<<Read(1, Some(1)), Write(1, 1)>>) }

\* ----------------------------------------------------------------- state

VARIABLES
    orchPc,        \* where JepsenClient::run is: "loop", "join", "check", "done"
    yielded,       \* how many (op, id) pairs gen.next_with_id() has returned
    sender_map,    \* the keys of JepsenClient::sender_map
    join_handles,  \* JepsenClient::join_handles, as the ids of the workers
    chan,          \* the mpsc channel of each id: the ops sent and not yet received
    pc,            \* each worker: "unspawned", "recv", "exec", "result", "exited",
                   \*   "panicked"
    cur,           \* the op a worker received and is handling (handle_op's `op`)
    acc,           \* the child results handle_op_inner has collected so far
    err,           \* the error handle_op_inner returned, if any (Option<String>)
    history,       \* Global::history, the SerializableHistoryList
    now,           \* the last reading of the monotonic clock, in nanoseconds
                   \*   since Global::start_time
    db,            \* the cluster behind the adapter: key -> Option<value>
    sent,          \* (ghost) the ops sent to each id, in order
    called,        \* (ghost) the adapter calls a worker made for its current op
    late,          \* (ghost) an adapter call of the worker's last op passed the
                   \*   adapter's deadline before it returned
    droppedQueued, \* (ghost) drop_senders ran while some op was still queued
    running,       \* (cooperative runtime) the task the executor is polling
    orchWait,      \* (cooperative runtime) what the orchestrator task awaits
    aborted,       \* (history callers) a push_result call hit its assertion
    lpc,           \* (locks) where each worker is in handle_op, lock by lock
    historyLock,   \* (locks) the holder of the Mutex of Global::history
    clusterLock,   \* (locks) the holder of the Mutex of cluster_client
    id_set,        \* (generators) the keys of Global::handle_pool
    raw,           \* (generators) the next element of the raw generator 1..
    pool,          \* (generators) the generators the caller holds
    genLast,       \* (ghost) the last operation on the generators, with its
                   \*   arguments and results
    gstate,        \* (group) "none": no group yet; "ready": the group exists;
                   \*   "done": the group has returned None
    gens,          \* (group) GeneratorGroup::gens: (Generator, Counter) pairs
    strategy,      \* (group) GeneratorGroup::strategy
    selected,      \* (group) GeneratorGroup::selected, a zero-based index
    created,       \* (ghost) the children the group was created with
    emitted,       \* (ghost) what the group has returned: the element, the id
                   \*   returned with it, and whether a child had been removed
    exhausted,     \* (ghost) the ids of the children that returned None
    repolled,      \* (ghost) a child was polled after it had returned None
    togen,         \* (group) the call of to_generator: its position, the
                   \*   generator it returned, and (ghost) where it began
    genLock,       \* (raw) the holder of the Mutex of Global::gen
    calls,         \* (raw) the calls of take_seq in the order in which they
                   \*   locked Global::gen: the caller, n, the Vec of gen_n and
                   \*   whether the call has returned
    nstate,        \* (net) "none": no cluster yet; "ready"; "calculated": a
                   \*   record was returned; "aborted": an assertion failed;
                   \*   "executed": the record was executed
    size,          \* (net) NemesisCluster::size
    connections,   \* (net) the directed links <<a, b>> that are not clogged
    record,        \* (net) the NemesisRecord returned, None before: a Net
                   \*   record is the set of the <<a, b>> with b in record[a]
    nemesis,       \* (ghost) the NemesisType calculated, with the leader the
                   \*   cluster named and the random choices made
    register,      \* (register) NemesisRegister: queue and strategy
    recovered,     \* (ghost) the records that were recovered, in order
    executions,    \* (ghost) the records execute was called with, in order
    runPc,         \* (run) the position of JepsenClient::run: "loop",
                   \*   "dropped", "joined", "checked"
    chooseLog,     \* (ghost) the calls of GeneratorGroupStrategy::choose: the
                   \*   strategy before, the range and the index returned
    allocs         \* (alloc) the threads that call GeneratorId::new and drop:
                   \*   the position of each, the id it chose or holds, and
                   \*   (ghost) the debug assertions that failed

vars == <<orchPc, yielded, sender_map, join_handles, chan, pc, cur, acc, err,
          history, now, db, sent, called, late, droppedQueued, running,
          orchWait, aborted, lpc, historyLock, clusterLock, id_set, raw,
          pool, genLast, gstate, gens, strategy, selected, created, emitted,
          exhausted, repolled, togen, genLock, calls, nstate, size,
          connections, record, nemesis, register, recovered, executions,
          runPc, chooseLog, allocs>>

\* The variables of the workers seen lock by lock.
lockVars == <<lpc, historyLock, clusterLock>>

\* The variables of the generators.
genVars == <<id_set, raw, pool, genLast>>

\* The variables of the generator group.
groupVars == <<gstate, gens, strategy, selected, created, emitted, exhausted,
               repolled, togen>>

\* The variables of the callers of take_seq.
takeVars == <<genLock, calls>>

\* The variables of the cluster and its nemesis.
netVars == <<nstate, size, connections, record, nemesis>>

\* The variables of the nemesis register and of the executions of a run.
regVars == <<register, recovered, executions, runPc>>

\* The variables of the callers of GeneratorGroupStrategy::choose.
chooseVars == <<chooseLog>>

\* The variables of the threads that allocate and free generator ids.
allocVars == <<allocs>>

\* The variables of the cooperative runtime and of the history callers.
auxVars == <<running, orchWait, aborted>>

NoOp == [tag |-> "none"]

\* The tasks of the runtime: the one that runs JepsenClient::run, the worker
\* spawned for an id, and no task (the executor is choosing).
OrchTask == <<"orch">>

WorkerTask(w) == <<"worker", w>>

Idle == <<"idle">>

Init ==
    /\ orchPc = "loop"
    /\ yielded = 0
    /\ sender_map = {}
    /\ join_handles = <<>>
    /\ chan = [i \in Ids |-> <<>>]
    /\ pc = [i \in Ids |-> "unspawned"]
    /\ cur = [i \in Ids |-> NoOp]
    /\ acc = [i \in Ids |-> <<>>]
    /\ err = [i \in Ids |-> None]
    /\ history = <<>>
    /\ now = 0
    /\ db = [k \in Keys |-> None]
    /\ sent = [i \in Ids |-> <<>>]
    /\ called = [i \in Ids |-> <<>>]
    /\ late = [i \in Ids |-> FALSE]
    /\ droppedQueued = FALSE
    /\ running = OrchTask
    /\ orchWait = "none"
    /\ aborted = FALSE
    /\ lpc = [i \in Ids |-> "recv"]
    /\ historyLock = None
    /\ clusterLock = None
    /\ id_set = {}
    /\ raw = 1
    /\ pool = <<>>
    /\ genLast = [kind |-> "none"]
    /\ gstate = "none"
    /\ gens = <<>>
    /\ strategy = [kind |-> "RoundRobin", last_choose |-> 0]
    /\ selected = 0
    /\ created = <<>>
    /\ emitted = <<>>
    /\ exhausted = {}
    /\ repolled = FALSE
    /\ togen = [state |-> "no", from |-> 0, first |-> 0, out |-> <<>>]
    /\ genLock = None
    /\ calls = <<>>
    /\ nstate = "none"
    /\ size = 0
    /\ connections = {}
    /\ record = None
    /\ nemesis = [kind |-> "Noop"]
    /\ register = [queue |-> <<>>, strategy |-> [kind |-> "FIFO", k |-> 1]]
    /\ recovered = <<>>
    /\ executions = <<>>
    /\ runPc = "loop"
    /\ chooseLog = <<>>
    /\ allocs = [pc |-> [t \in 1..3 |-> "idle"], id |-> [t \in 1..3 |-> 0],
                 failed |-> {}]

\* --------------------------------------------------------------- history

\* A clock that is not monotonic: a reading can be lower than the last one.
AnyClockReading(t) == 0..MaxClock

\* What time::Instant::now() can return when its last reading was t: the
\* clock is monotonic.
ClockReadings(t) == t..MaxClock

\* SerializableHistoryList::timestamp: the time elapsed since start_time, read
\* from the clock by the push that is being made.
Timestamp == now'

\* The kinds of HistoryType a result is pushed with: Ok, Fail and Info (Invoke
\* is the kind of push_invoke).
ResultTypes == {"ok", "fail", "info"}

\* A push_invoke that numbers the entries from one.
PushInvokeFromOne(h, process, value) ==
    Append(h, [index |-> Len(h) + 1, type |-> "invoke",
               f |-> OpFunctionType(value), value |-> value,
               time |-> Timestamp, process |-> process, error |-> None])

\* SerializableHistoryList::push_invoke: the list after the push.
PushInvoke(h, process, value) ==
    Append(h, [index   |-> Len(h),
               type    |-> "invoke",
               f       |-> OpFunctionType(value),
               value   |-> value,
               time    |-> Timestamp,
               process |-> process,
               error   |-> None])

\* No assertion in push_result: any pair of kind and error is accepted.
AnyResultType(result_type, error) == TRUE

\* The assertion of push_result: (result_type == Ok) == error.is_none().
ResultTypeMatches(result_type, error) ==
    (result_type = "ok") = (error = None)

\* A push_result that appends nothing.
PushResultDropped(h, process, result_type, value, error) == h

\* SerializableHistoryList::push_result past its assertion: the list after
\* the push.
PushResult(h, process, result_type, value, error) ==
    Append(h, [index   |-> Len(h),
               type    |-> result_type,
               f       |-> OpFunctionType(value),
               value   |-> value,
               time    |-> Timestamp,
               process |-> process,
               error   |-> error])

\* ---------------------------------------------------- the orchestrator

\* An alloc_thread that does not look the id up: a channel and a worker for
\* every dispatch.
AllocThreadAlways(id) ==
    /\ sender_map' = sender_map \cup {id}
    /\ join_handles' = Append(join_handles, id)
    /\ pc' = [pc EXCEPT ![id] = "recv"]

\* JepsenClient::alloc_thread: a channel and a worker for an id that has no
\* sender yet; nothing for an id that has one.
AllocThread(id) ==
    IF id \in sender_map
      THEN UNCHANGED <<sender_map, join_handles, pc>>
      ELSE /\ sender_map' = sender_map \cup {id}
           /\ join_handles' = Append(join_handles, id)
           /\ pc' = [pc EXCEPT ![id] = "recv"]

\* One turn of the loop of JepsenClient::run: the group yields (op, id), the
\* worker of id is allocated and the op is sent to it.
Dispatch(op, id) ==
    /\ orchPc = "loop"
    /\ yielded < MaxOps
    /\ yielded' = yielded + 1
    /\ AllocThread(id)
    /\ chan' = [chan EXCEPT ![id] = Append(@, op)]
    /\ sent' = [sent EXCEPT ![id] = Append(@, op)]
    /\ UNCHANGED <<orchPc, cur, acc, err, history, now, db, called, late,
                   droppedQueued>>

\* JepsenClient::drop_senders: the sender map is cleared, which drops every
\* Sender.
DropSenders ==
    /\ sender_map' = {}
    /\ droppedQueued' = (\E i \in Ids : chan[i] # <<>>)

\* The group is exhausted: the loop of run ends and the senders are dropped.
EndOfStream ==
    /\ orchPc = "loop"
    /\ DropSenders
    /\ orchPc' = "join"
    /\ UNCHANGED <<yielded, join_handles, chan, pc, cur, acc, err, history,
                   now, db, sent, called, late>>

\* run awaits the join handles in the order they were pushed, and goes on to
\* the checker when none is left.
Join ==
    /\ orchPc = "join"
    /\ IF join_handles = <<>>
         THEN /\ orchPc' = "check"
              /\ UNCHANGED join_handles
         ELSE /\ pc[Head(join_handles)] = "exited"
              /\ join_handles' = Tail(join_handles)
              /\ UNCHANGED orchPc
    /\ UNCHANGED <<yielded, sender_map, chan, pc, cur, acc, err, history, now,
                   db, sent, called, late, droppedQueued>>

\* run hands the history to ElleRwChecker::check and returns.
Check ==
    /\ orchPc = "check"
    /\ orchPc' = "done"
    /\ UNCHANGED <<yielded, sender_map, join_handles, chan, pc, cur, acc, err,
                   history, now, db, sent, called, late, droppedQueued>>

\* ----------------------------------------------------------- the workers

\* The ops handle_op_inner runs against the adapter for op.
Children(op) == IF op.tag = "txn" THEN op.ops ELSE <<op>>

\* A channel that hands out the newest message first.
LifoRecv(q) == [op |-> q[Len(q)], rest |-> SubSeq(q, 1, Len(q) - 1)]

\* Receiver::recv on a channel that holds q: the oldest message, and what stays
\* queued.
MpscRecv(q) == [op |-> Head(q), rest |-> Tail(q)]

\* A channel whose recv returns Err as soon as the Sender is dropped, whatever
\* is still queued.
RecvErrOnDisconnect(q, connected) == ~connected

\* Receiver::recv returns Err: nothing is queued and the Sender is dropped.
RecvErr(q, connected) == q = <<>> /\ ~connected

\* The worker's loop, `while let Ok(op) = rx.recv() { handle_op(id, op) }`, up
\* to the end of the first critical section of handle_op: rx.recv() returns
\* the oldest op of the channel, and handle_op pushes its invocation under the
\* history lock; rx.recv() returns Err, which ends the loop, once the channel
\* is empty and its Sender is dropped; it blocks while the channel is empty
\* and the Sender lives.
Recv(w) ==
    /\ pc[w] = "recv"
    /\ IF RecvErr(chan[w], w \in sender_map)
         THEN /\ pc' = [pc EXCEPT ![w] = "exited"]
              /\ UNCHANGED <<cur, chan, now, history, late>>
         ELSE /\ chan[w] # <<>>
              /\ cur' = [cur EXCEPT ![w] = MpscRecv(chan[w]).op]
              /\ chan' = [chan EXCEPT ![w] = MpscRecv(chan[w]).rest]
              /\ now' \in ClockReadings(now)
              /\ history' = PushInvoke(history, w, MpscRecv(chan[w]).op)
              /\ late' = [late EXCEPT ![w] = FALSE]
              /\ pc' = [pc EXCEPT ![w] =
                          IF Children(MpscRecv(chan[w]).op) = <<>>
                            THEN "result" ELSE "exec"]
    /\ UNCHANGED <<orchPc, yielded, sender_map, join_handles, acc, err,
                   db, sent, called, droppedQueued>>

\* ElleRwClusterClient::get and put of the in-memory cluster (TestCluster).
ClusterGet(d, key) == d[key]

ClusterPut(d, key, value) == [d EXCEPT ![key] = Some(value)]

\* handle_op_inner on a Read or a Write: the Result and the cluster after it.
HandleLeaf(op, d) ==
    IF op.tag = "r"
      THEN [ok |-> TRUE, op |-> Read(op.key, ClusterGet(d, op.key)),
            error |-> "", db |-> d]
      ELSE [ok |-> TRUE, op |-> op,
            error |-> "", db |-> ClusterPut(d, op.key, op.val[1])]

\* An iterator that yields the children from the last to the first.
LastChildFirst(children, done) == Len(children) - done

\* The child handle_op_inner runs when `done` of them have run: the iterator
\* ops.into_iter() yields them in their declared order.
NextChild(children, done) == done + 1

\* handle_op_inner, one adapter call (one child of a Txn, or the op itself):
\* the adapter is locked for that call alone. An Err from a child ends the
\* collect at once. `l` says whether the call passed the adapter's deadline
\* before it returned.
HandleOpInner(w, l) ==
    /\ pc[w] = "exec"
    /\ LET children == Children(cur[w])
           done == Len(called[w])
           child == children[NextChild(children, done)]
           r == HandleLeaf(child, db)
       IN /\ done < Len(children)
          /\ db' = r.db
          /\ called' = [called EXCEPT ![w] = Append(@, child)]
          /\ late' = [late EXCEPT ![w] = late[w] \/ l]
          /\ acc' = [acc EXCEPT ![w] = IF r.ok THEN Append(@, r.op) ELSE @]
          /\ err' = [err EXCEPT ![w] = IF r.ok THEN @ ELSE Some(r.error)]
          /\ pc' = [pc EXCEPT ![w] =
                      IF r.ok /\ done + 1 < Len(children)
                        THEN "exec" ELSE "result"]
    /\ UNCHANGED <<orchPc, yielded, sender_map, join_handles, chan, cur,
                   history, now, sent, droppedQueued>>

\* The value handle_op_inner returns on success.
ResultOp(op, results) == IF op.tag = "txn" THEN Txn(results) ELSE results[1]

\* handle_op, the match on the result: push_result under the history lock,
\* Ok with the result op, or Fail with the op as invoked and the error. The
\* assertion of push_result panics the worker.
HandleOpResult(w) ==
    /\ pc[w] = "result"
    /\ LET result_type == IF err[w] = None THEN "ok" ELSE "fail"
           value == IF err[w] = None THEN ResultOp(cur[w], acc[w]) ELSE cur[w]
           pushed == ResultTypeMatches(result_type, err[w])
       IN /\ now' \in (IF pushed THEN ClockReadings(now) ELSE {now})
          /\ history' = IF pushed
                          THEN PushResult(history, w, result_type, value, err[w])
                          ELSE history
          /\ pc' = [pc EXCEPT ![w] = IF pushed THEN "recv" ELSE "panicked"]
    /\ cur' = [cur EXCEPT ![w] = NoOp]
    /\ acc' = [acc EXCEPT ![w] = <<>>]
    /\ err' = [err EXCEPT ![w] = None]
    /\ called' = [called EXCEPT ![w] = <<>>]
    /\ UNCHANGED <<orchPc, yielded, sender_map, join_handles, chan, db,
                   sent, late, droppedQueued>>

\* ------------------------------------------------------------ the system

\* The orchestrator and the workers as threads: any interleaving of their
\* steps, each step one critical section.
Next ==
    /\ \/ \E op \in OpUniverse, id \in Ids : Dispatch(op, id)
       \/ EndOfStream
       \/ Join
       \/ Check
       \/ \E w \in Ids : Recv(w)
       \/ \E w \in Ids : HandleOpInner(w, FALSE)
       \/ \E w \in Ids : HandleOpResult(w)
    /\ UNCHANGED <<auxVars, lockVars, genVars, groupVars, takeVars, netVars,
                   regVars, chooseVars,
                   allocVars>>

Spec == Init /\ [][Next]_vars

\* ------------------------------------------- the cooperative executor
\*
\* JepsenClient spawns its workers with NodeHandle::spawn, as tasks of the
\* madsim executor, which polls one task at a time on one thread and goes to
\* another task only when the one it polls returns Pending. The orchestrator
\* returns Pending in the sleep of a delay strategy and in the await of a
\* join handle of a worker that has not ended. A worker has no such point:
\* Receiver::recv of std::sync::mpsc blocks the thread, and handle_op awaits
\* nothing that is pending.

\* Generator::next sleeps for the delay strategy of the element it took
\* (DelayStrategy::Fixed or Random): the orchestrator returns Pending.
CoopDelay ==
    /\ running = OrchTask
    /\ orchPc = "loop"
    /\ orchWait = "none"
    /\ yielded < MaxOps
    /\ running' = Idle
    /\ orchWait' = "delay"
    /\ UNCHANGED <<orchPc, yielded, sender_map, join_handles, chan, pc, cur,
                   acc, err, history, now, db, sent, called, late,
                   droppedQueued, aborted>>

\* The executor polls a worker that was spawned and has not ended.
CoopPollWorker(w) ==
    /\ running = Idle
    /\ pc[w] \in {"recv", "exec", "result"}
    /\ running' = WorkerTask(w)
    /\ UNCHANGED <<orchPc, yielded, sender_map, join_handles, chan, pc, cur,
                   acc, err, history, now, db, sent, called, late,
                   droppedQueued, orchWait, aborted>>

\* The executor polls the orchestrator again: the worker it awaits has ended,
\* or no task is ready, so that the simulated time advances to the end of the
\* sleep.
CoopPollOrch ==
    /\ running = Idle
    /\ \/ /\ orchWait = "join"
          /\ pc[Head(join_handles)] = "exited"
          /\ orchWait' = "none"
       \/ /\ orchWait = "delay"
          /\ \A w \in Ids : pc[w] \notin {"recv", "exec", "result"}
          /\ orchWait' = "slept"
    /\ running' = OrchTask
    /\ UNCHANGED <<orchPc, yielded, sender_map, join_handles, chan, pc, cur,
                   acc, err, history, now, db, sent, called, late,
                   droppedQueued, aborted>>

\* A turn of the loop of run, with no delay (DelayStrategy::None) or after the
\* sleep.
CoopDispatch(op, id) ==
    /\ running = OrchTask
    /\ orchWait \in {"none", "slept"}
    /\ Dispatch(op, id)
    /\ orchWait' = "none"
    /\ UNCHANGED <<running, aborted>>

\* The end of the group: the stream returns None, without a delay.
CoopEndOfStream ==
    /\ running = OrchTask
    /\ orchWait = "none"
    /\ EndOfStream
    /\ UNCHANGED auxVars

\* `handle.await` on a worker that has ended, or no handle left.
CoopJoin ==
    /\ running = OrchTask
    /\ Join
    /\ UNCHANGED auxVars

\* `handle.await` on a worker that has not ended: the orchestrator returns
\* Pending.
CoopJoinPending ==
    /\ running = OrchTask
    /\ orchPc = "join"
    /\ join_handles # <<>>
    /\ pc[Head(join_handles)] # "exited"
    /\ running' = Idle
    /\ orchWait' = "join"
    /\ UNCHANGED <<orchPc, yielded, sender_map, join_handles, chan, pc, cur,
                   acc, err, history, now, db, sent, called, late,
                   droppedQueued, aborted>>

CoopCheck ==
    /\ running = OrchTask
    /\ Check
    /\ UNCHANGED auxVars

\* A step of the worker the executor polls; the task ends, and the executor
\* chooses again, when the loop of the worker ends.
CoopWorker(w) ==
    /\ running = WorkerTask(w)
    /\ \/ Recv(w)
       \/ \E l \in BOOLEAN : HandleOpInner(w, l)
       \/ HandleOpResult(w)
    /\ running' = IF pc'[w] \in {"exited", "panicked"} THEN Idle ELSE running
    /\ UNCHANGED <<orchWait, aborted>>

CoopNext ==
    /\ \/ CoopDelay
       \/ \E w \in Ids : CoopPollWorker(w)
       \/ CoopPollOrch
       \/ \E op \in OpUniverse, id \in Ids : CoopDispatch(op, id)
       \/ CoopEndOfStream
       \/ CoopJoin
       \/ CoopJoinPending
       \/ CoopCheck
       \/ \E w \in Ids : CoopWorker(w)
    /\ UNCHANGED <<lockVars, genVars, groupVars, takeVars, netVars,
                   regVars, chooseVars,
                   allocVars>>

CoopSpec == Init /\ [][CoopNext]_vars

\* ------------------------------------------- the callers of the history
\*
\* push_invoke and push_result are public methods of the history list: here
\* they are called with any process, any kind of result and any error, by a
\* caller that holds the lock of the list.

\* The errors a caller passes to push_result (Option<ERR>).
HistErrors == {None, Some("timeout")}

HistPushInvoke(process, value) ==
    /\ ~aborted
    /\ Len(history) < MaxHist
    /\ now' \in ClockReadings(now)
    /\ history' = PushInvoke(history, process, value)
    /\ UNCHANGED aborted

\* push_result: the assertion on (result_type, error) panics before anything
\* is appended.
HistPushResult(process, result_type, value, error) ==
    /\ ~aborted
    /\ Len(history) < MaxHist
    /\ IF ResultTypeMatches(result_type, error)
         THEN /\ now' \in ClockReadings(now)
              /\ history' = PushResult(history, process, result_type, value,
                                       error)
              /\ UNCHANGED aborted
         ELSE /\ aborted' = TRUE
              /\ UNCHANGED <<history, now>>

HistNext ==
    /\ \/ \E p \in Ids : HistPushInvoke(p, Write(1, 1))
       \/ \E p \in Ids, t \in ResultTypes, e \in HistErrors :
             HistPushResult(p, t, Write(1, 1), e)
    /\ UNCHANGED <<orchPc, yielded, sender_map, join_handles, chan, pc, cur,
                   acc, err, db, sent, called, late, droppedQueued, running,
                   orchWait, lockVars, genVars, groupVars, takeVars, netVars,
                   regVars, chooseVars,
                   allocVars>>

HistSpec == Init /\ [][HistNext]_vars

\* ------------------------------------------------- the workers' locks
\*
\* handle_op with its locks: `self.global.history.lock().unwrap().push_…(…)`
\* takes the Mutex of the history for one statement, and each
\* `self.cluster_client.lock().unwrap().get(…)` or `.put(…)` takes the Mutex
\* of the adapter for one statement. The ops are put in the channels by
\* LockSend; the workers are the two of Ids.

\* A MutexGuard that outlives the statement that locked the Mutex: worker w
\* still holds it.
GuardKept(w) == Some(w)

\* The holder of a Mutex once the statement of worker w that locked it has
\* ended: the MutexGuard is a temporary of the statement, dropped at its end,
\* so that nobody holds the Mutex.
GuardAfterStatement(w) == None

\* An op is sent to the channel of a worker.
LockSend(op, id) ==
    /\ yielded < MaxOps
    /\ yielded' = yielded + 1
    /\ chan' = [chan EXCEPT ![id] = Append(@, op)]
    /\ UNCHANGED <<cur, acc, called, history, now, db, lockVars>>

\* rx.recv() returns an op: handle_op starts.
LockRecv(w) ==
    /\ lpc[w] = "recv"
    /\ chan[w] # <<>>
    /\ cur' = [cur EXCEPT ![w] = MpscRecv(chan[w]).op]
    /\ chan' = [chan EXCEPT ![w] = MpscRecv(chan[w]).rest]
    /\ lpc' = [lpc EXCEPT ![w] = "invoke_lock"]
    /\ UNCHANGED <<yielded, acc, called, history, now, db, historyLock,
                   clusterLock>>

\* history.lock(): the worker waits until the Mutex is free and takes it.
LockHistory(w) ==
    /\ lpc[w] \in {"invoke_lock", "result_lock"}
    /\ historyLock = None
    /\ historyLock' = Some(w)
    /\ lpc' = [lpc EXCEPT ![w] =
                 IF lpc[w] = "invoke_lock" THEN "invoke_push" ELSE "result_push"]
    /\ UNCHANGED <<yielded, chan, cur, acc, called, history, now, db,
                   clusterLock>>

\* push_invoke, or push_result with Ok and the op handle_op_inner returned,
\* and the end of the statement.
LockPush(w) ==
    /\ lpc[w] \in {"invoke_push", "result_push"}
    /\ now' \in ClockReadings(now)
    /\ IF lpc[w] = "invoke_push"
         THEN /\ history' = PushInvoke(history, w, cur[w])
              /\ lpc' = [lpc EXCEPT ![w] =
                           IF Children(cur[w]) = <<>>
                             THEN "result_lock" ELSE "cluster_lock"]
              /\ UNCHANGED <<cur, acc, called>>
         ELSE /\ history' = PushResult(history, w, "ok",
                                       ResultOp(cur[w], acc[w]), None)
              /\ lpc' = [lpc EXCEPT ![w] = "recv"]
              /\ cur' = [cur EXCEPT ![w] = NoOp]
              /\ acc' = [acc EXCEPT ![w] = <<>>]
              /\ called' = [called EXCEPT ![w] = <<>>]
    /\ historyLock' = GuardAfterStatement(w)
    /\ UNCHANGED <<yielded, chan, db, clusterLock>>

\* cluster_client.lock(): the worker waits until the Mutex is free and takes
\* it.
LockCluster(w) ==
    /\ lpc[w] = "cluster_lock"
    /\ clusterLock = None
    /\ clusterLock' = Some(w)
    /\ lpc' = [lpc EXCEPT ![w] = "call"]
    /\ UNCHANGED <<yielded, chan, cur, acc, called, history, now, db,
                   historyLock>>

\* get or put for the next child of the op, and the end of the statement.
LockCall(w) ==
    /\ lpc[w] = "call"
    /\ LET children == Children(cur[w])
           child == children[NextChild(children, Len(called[w]))]
       IN /\ db' = HandleLeaf(child, db).db
          /\ called' = [called EXCEPT ![w] = Append(@, child)]
          /\ acc' = [acc EXCEPT ![w] = Append(@, HandleLeaf(child, db).op)]
          /\ lpc' = [lpc EXCEPT ![w] =
                       IF Len(called[w]) + 1 < Len(children)
                         THEN "cluster_lock" ELSE "result_lock"]
    /\ clusterLock' = GuardAfterStatement(w)
    /\ UNCHANGED <<yielded, chan, cur, history, now, historyLock>>

LockNext ==
    /\ \/ \E op \in OpUniverse, id \in Ids : LockSend(op, id)
       \/ \E w \in Ids : LockRecv(w)
       \/ \E w \in Ids : LockHistory(w)
       \/ \E w \in Ids : LockPush(w)
       \/ \E w \in Ids : LockCluster(w)
       \/ \E w \in Ids : LockCall(w)
    /\ UNCHANGED <<orchPc, sender_map, join_handles, pc, err, sent, late,
                   droppedQueued, auxVars, genVars, groupVars,
                   takeVars, netVars,
                   regVars, chooseVars,
                   allocVars>>

LockSpec == Init /\ [][LockNext]_vars

\* ------------------------------------------------------- the generators
\*
\* A Generator is its id and its stream, a sequence of (element, delay
\* strategy) pairs. The caller builds generators over segments of the raw
\* generator 1.. (as the tests do), splits them, chains them and drops them.

\* The delay strategies a generator is built with.
Delays == {"none", "fixed"}

\* The keys of the pool in ascending order: the key at (zero-based) position
\* index is the one with index smaller keys.
KeyAt(set, index) ==
    CHOOSE id \in set : Cardinality({k \in set : k < id}) = index

\* An allocator that returns the size of the pool.
PoolLen(set) == Cardinality(set)

\* GeneratorId::get_next_id: the first position of the ascending keys whose
\* key is not the position, or the size of the pool.
GetNextId(set) ==
    LET holes == {index \in 0..(Cardinality(set) - 1) :
                     index # KeyAt(set, index)}
    IN IF holes = {}
         THEN Cardinality(set)
         ELSE CHOOSE index \in holes : \A other \in holes : index <= other

\* GeneratorId::alloc_id: the id, and the pool with it.
AllocId(set) == [id |-> GetNextId(set), set |-> set \cup {GetNextId(set)}]

\* A drop that frees nothing.
FreeNothing(set, id) == set

\* GeneratorId::free_id, called by drop: the pool without the id.
FreeId(set, id) == set \ {id}

\* Global::take_seq(n) on the raw generator whose next element is r.
TakeSeq(r, n) == [k \in 1..n |-> r + k - 1]

\* GeneratorBuilder::build with a raw seq: each element with the delay
\* strategy of the builder.
WrapSeq(seq, delay) == [k \in 1..Len(seq) |-> [op |-> seq[k], delay |-> delay]]

\* A split that loses the element at the boundary.
StreamSplitLosesOne(seq, n, buffer) ==
    LET taken == IF n < Len(seq) THEN n ELSE Len(seq)
    IN [buffer |-> SubSeq(seq, 1, taken),
        rest |-> SubSeq(seq, taken + 2, Len(seq))]

\* ExtraStreamExt::split_at: next() is called up to n times, a None ends the
\* loop; the buffer, and what is left in the stream.
RECURSIVE StreamSplitAt(_, _, _)
StreamSplitAt(seq, n, buffer) ==
    IF n = 0 \/ seq = <<>>
      THEN [buffer |-> buffer, rest |-> seq]
      ELSE StreamSplitAt(Tail(seq), n - 1, Append(buffer, Head(seq)))

\* A chain that yields the second stream first.
ChainSwapped(first, second) == second \o first

\* StreamExt::chain: the first stream to its end, then the second.
StreamChain(first, second) == first \o second

\* Replaces the generator at position i of the pool by the generators gs.
PoolReplace(i, gs) ==
    SubSeq(pool, 1, i - 1) \o gs \o SubSeq(pool, i + 1, Len(pool))

\* A generator is built over the next n elements of the raw generator: it is
\* given the id alloc_id returns.
GenBuild(n, delay) ==
    /\ Len(pool) < MaxGens
    /\ raw + n - 1 <= MaxRaw
    /\ LET a == AllocId(id_set)
           g == [id |-> a.id, seq |-> WrapSeq(TakeSeq(raw, n), delay)]
       IN /\ id_set' = a.set
          /\ raw' = raw + n
          /\ pool' = Append(pool, g)
          /\ genLast' = [kind |-> "build", out |-> g, allocated |-> a.id,
                         before |-> id_set, after |-> a.set]

\* Generator::split_at(n) on the generator at position i: the head keeps the
\* id, the tail is built without an id and is given a new one.
GenSplitAt(i, n) ==
    /\ i \in 1..Len(pool)
    /\ Len(pool) < MaxGens
    /\ LET g == pool[i]
           sp == StreamSplitAt(g.seq, n, <<>>)
           a == AllocId(id_set)
           head == [id |-> g.id, seq |-> sp.buffer]
           tail == [id |-> a.id, seq |-> sp.rest]
       IN /\ id_set' = a.set
          /\ pool' = PoolReplace(i, <<head, tail>>)
          /\ genLast' = [kind |-> "split", g |-> g, n |-> n, head |-> head,
                         tail |-> tail, allocated |-> a.id,
                         before |-> id_set, after |-> a.set]
    /\ UNCHANGED raw

\* Generator::chain on the generators at positions i and j: the result has the
\* id of the first, and the id of the second is dropped.
GenChain(i, j) ==
    /\ i \in 1..Len(pool)
    /\ j \in 1..Len(pool)
    /\ i # j
    /\ LET a == pool[i]
           b == pool[j]
           out == [id |-> a.id, seq |-> StreamChain(a.seq, b.seq)]
       IN /\ id_set' = FreeId(id_set, b.id)
          /\ pool' = [k \in 1..(Len(pool) - 1) |->
                        LET from == IF k < j THEN k ELSE k + 1
                        IN IF from = i THEN out ELSE pool[from]]
          /\ genLast' = [kind |-> "chain", a |-> a, b |-> b, out |-> out,
                         freed |-> b.id, before |-> id_set,
                         after |-> FreeId(id_set, b.id)]
    /\ UNCHANGED raw

\* split_at(n) on the generator at position i, and chain on the two halves.
GenSplitAndChain(i, n) ==
    /\ i \in 1..Len(pool)
    /\ Len(pool) < MaxGens
    /\ LET g == pool[i]
           sp == StreamSplitAt(g.seq, n, <<>>)
           a == AllocId(id_set)
           head == [id |-> g.id, seq |-> sp.buffer]
           tail == [id |-> a.id, seq |-> sp.rest]
           out == [id |-> head.id, seq |-> StreamChain(head.seq, tail.seq)]
       IN /\ id_set' = FreeId(a.set, tail.id)
          /\ pool' = PoolReplace(i, <<out>>)
          /\ genLast' = [kind |-> "split_chain", g |-> g, n |-> n,
                         out |-> out, before |-> id_set,
                         after |-> FreeId(a.set, tail.id)]
    /\ UNCHANGED raw

\* The generator at position i is dropped, and its GeneratorId with it.
GenDrop(i) ==
    /\ i \in 1..Len(pool)
    /\ id_set' = FreeId(id_set, pool[i].id)
    /\ pool' = PoolReplace(i, <<>>)
    /\ genLast' = [kind |-> "drop", freed |-> pool[i].id, before |-> id_set,
                   after |-> FreeId(id_set, pool[i].id)]
    /\ UNCHANGED raw

\* The functions given to map: |x| x and |x| x + 2.
MapFns == {"id", "add2"}

\* The predicates given to filter: |x| x % 2 == 0, |x| x % 3 == 0 and
\* |_| false.
FilterFns == {"even", "mult3", "none"}

\* f(x) for a function given to map.
ApplyFn(f, x) == IF f = "add2" THEN x + 2 ELSE x

\* p(x) for a predicate given to filter.
ApplyPred(p, x) ==
    CASE p = "even" -> x % 2 = 0
      [] p = "mult3" -> x % 3 = 0
      [] p = "none" -> FALSE

\* A map that pairs the new op with the default delay.
MapResetsDelay(seq, f) ==
    [k \in 1..Len(seq) |-> [op |-> ApplyFn(f, seq[k].op), delay |-> "none"]]

\* StreamExt::map with |(u, d)| (f(u), d).
StreamMap(seq, f) ==
    [k \in 1..Len(seq) |-> [op |-> ApplyFn(f, seq[k].op),
                            delay |-> seq[k].delay]]

\* StreamExt::filter with |(u, _)| p(u): the pairs whose op satisfies p.
RECURSIVE StreamFilter(_, _)
StreamFilter(seq, p) ==
    IF seq = <<>>
      THEN <<>>
      ELSE IF ApplyPred(p, Head(seq).op)
             THEN <<Head(seq)>> \o StreamFilter(Tail(seq), p)
             ELSE StreamFilter(Tail(seq), p)

\* StreamExt::take(n): the stream ends after n elements, or at its own end.
RECURSIVE StreamTake(_, _)
StreamTake(seq, n) ==
    IF n = 0 \/ seq = <<>>
      THEN <<>>
      ELSE <<Head(seq)>> \o StreamTake(Tail(seq), n - 1)

\* g.map(f).filter(p).take(n) on the generator at position i: each of the
\* three builds its result with the id of the generator it consumes.
GenMapFilterTake(i, f, p, n) ==
    /\ i \in 1..Len(pool)
    /\ LET g == pool[i]
           mapped == [id |-> g.id, seq |-> StreamMap(g.seq, f)]
           filtered == [id |-> mapped.id, seq |-> StreamFilter(mapped.seq, p)]
           out == [id |-> filtered.id, seq |-> StreamTake(filtered.seq, n)]
       IN /\ pool' = PoolReplace(i, <<out>>)
          /\ genLast' = [kind |-> "transform", g |-> g, f |-> f, p |-> p,
                         n |-> n, out |-> out, before |-> id_set,
                         after |-> id_set]
    /\ UNCHANGED <<id_set, raw>>

GenNext ==
    /\ \/ \E n \in 0..MaxRaw, delay \in Delays : GenBuild(n, delay)
       \/ \E i \in 1..MaxGens, n \in 0..(MaxRaw + 1) : GenSplitAt(i, n)
       \/ \E i, j \in 1..MaxGens : GenChain(i, j)
       \/ \E i \in 1..MaxGens, n \in 0..(MaxRaw + 1) : GenSplitAndChain(i, n)
       \/ \E i \in 1..MaxGens : GenDrop(i)
    /\ UNCHANGED <<orchPc, yielded, sender_map, join_handles, chan, pc, cur,
                   acc, err, history, now, db, sent, called, late,
                   droppedQueued, auxVars, lockVars, groupVars,
                   takeVars, netVars,
                   regVars, chooseVars,
                   allocVars>>

GenSpec == Init /\ [][GenNext]_vars

\* Generators are built and chained, and one of them is transformed.
TransformNext ==
    /\ genLast.kind # "transform"
    /\ \/ \E n \in 0..MaxRaw, delay \in Delays : GenBuild(n, delay)
       \/ \E i, j \in 1..MaxGens : GenChain(i, j)
       \/ \E i \in 1..MaxGens, f \in MapFns, p \in FilterFns,
             n \in 0..(MaxRaw + 1) : GenMapFilterTake(i, f, p, n)
    /\ UNCHANGED <<orchPc, yielded, sender_map, join_handles, chan, pc, cur,
                   acc, err, history, now, db, sent, called, late,
                   droppedQueued, auxVars, lockVars, groupVars,
                   takeVars, netVars,
                   regVars, chooseVars,
                   allocVars>>

TransformSpec == Init /\ [][TransformNext]_vars

\* ------------------------------------------------- the generator group

\* The numbers of children of the groups that are created.
GroupSizes == 1..3

RECURSIVE SeqSum(_)
SeqSum(s) == IF s = <<>> THEN 0 ELSE Head(s) + SeqSum(Tail(s))

\* Counter::new(total).
CounterNew(total) == [cur |-> total, total |-> total]

\* Counter::over.
CounterOver(c) == c.cur = 0

\* Counter::reset.
CounterReset(c) == [c EXCEPT !.cur = c.total]

\* Counter::count on a counter that is not over.
CounterCount(c) == [c EXCEPT !.cur = c.cur - 1]

\* x.overflowing_add_range(k, lo..hi): a value of lo..hi-1, which is
\* ((x - lo) + k) mod (hi - lo) + lo when x is in the range; any value of the
\* range otherwise.
OverflowingAddRange(x, k, lo, hi) ==
    IF x \in lo..(hi - 1)
      THEN {(((x - lo) + k) % (hi - lo)) + lo}
      ELSE lo..(hi - 1)

\* The strategies a group of n children is given: RoundRobin(last) with last
\* an index of the group, Random and Chain.
GeneratorGroupStrategy(n) ==
    {[kind |-> "RoundRobin", last_choose |-> i] : i \in 0..(n - 1)}
        \cup {[kind |-> "Random", last_choose |-> 0],
              [kind |-> "Chain", last_choose |-> 0]}

\* GeneratorGroupStrategy::default.
DefaultStrategy == [kind |-> "RoundRobin", last_choose |-> 0]

\* A Chain that chooses the end of the range.
ChooseEndOfRange(strat, lo, hi) ==
    CASE strat.kind = "RoundRobin" ->
           {[index |-> v, strategy |-> [strat EXCEPT !.last_choose = v]] :
               v \in OverflowingAddRange(strat.last_choose, 1, lo, hi)}
      [] strat.kind = "Random" ->
           {[index |-> v, strategy |-> strat] : v \in lo..(hi - 1)}
      [] strat.kind = "Chain" ->
           {[index |-> hi - 1, strategy |-> strat]}

\* A RoundRobin that returns the next index and does not store it.
ChooseForgets(strat, lo, hi) ==
    CASE strat.kind = "RoundRobin" ->
           {[index |-> v, strategy |-> strat] :
               v \in OverflowingAddRange(strat.last_choose, 1, lo, hi)}
      [] strat.kind = "Random" ->
           {[index |-> v, strategy |-> strat] : v \in lo..(hi - 1)}
      [] strat.kind = "Chain" ->
           {[index |-> lo, strategy |-> strat]}

\* GeneratorGroupStrategy::choose(lo..hi): the indices it may return, each
\* with the strategy it leaves.
Choose(strat, lo, hi) ==
    CASE strat.kind = "RoundRobin" ->
           {[index |-> v, strategy |-> [strat EXCEPT !.last_choose = v]] :
               v \in OverflowingAddRange(strat.last_choose, 1, lo, hi)}
      [] strat.kind = "Random" ->
           {[index |-> v, strategy |-> strat] : v \in lo..(hi - 1)}
      [] strat.kind = "Chain" ->
           {[index |-> lo, strategy |-> strat]}

\* A removal that leaves the vector as it is.
RemoveNothing(gs, index) == gs

\* A removal of the first child, whatever the index.
RemoveFront(gs, index) == Tail(gs)

\* GeneratorGroup::remove_generator: Vec::remove at a zero-based index.
RemoveGenerator(gs, index) ==
    SubSeq(gs, 1, index) \o SubSeq(gs, index + 2, Len(gs))

\* GeneratorGroup::remove_current_and_reselect: the outcomes it may leave.
RemoveCurrentAndReselect(gs, sel, strat) ==
    LET is_last == sel = Len(gs) - 1
        rest == RemoveGenerator(gs, sel)
    IN IF rest # <<>> /\ (is_last \/ strat.kind = "Random")
         THEN {[gens |-> rest, selected |-> c.index, strategy |-> c.strategy] :
                  c \in Choose(strat, 0, Len(rest))}
         ELSE {[gens |-> rest, selected |-> sel, strategy |-> strat]}

\* A next_with_id that returns the id of the first child of the group.
NextWithFirstId(g) == [op |-> Head(g.seq).op, id |-> gens[1].g.id]

\* Generator::next_with_id on a generator that has an element: the element
\* and the id of the generator.
GeneratorNextWithId(g) == [op |-> Head(g.seq).op, id |-> g.id]

\* GeneratorGroup::current_mut.
CurrentMut == gens[selected + 1]

\* The child at position k of a group of children of the lengths lens, built
\* one after the other over the raw generator: its id is the smallest free
\* one, its elements are the next lens[k] of the raw generator.
ChildAt(lens, k) ==
    [id |-> k - 1,
     seq |-> WrapSeq(TakeSeq(raw + SeqSum(SubSeq(lens, 1, k - 1)), lens[k]),
                     "none")]

\* The same child, built with the delay strategy delay when the smallest free
\* id was id.
ChildWith(lens, k, id, delay) ==
    [id |-> id,
     seq |-> WrapSeq(TakeSeq(raw + SeqSum(SubSeq(lens, 1, k - 1)), lens[k]),
                     delay)]

\* GeneratorGroup::new_with_count on children of the lengths lens with the
\* quotas, followed by with_strategy.
GroupNewWithCount(lens, quotas, strat) ==
    /\ gstate = "none"
    /\ id_set = {}
    /\ gens' = [k \in 1..Len(lens) |->
                  [g |-> ChildAt(lens, k), counter |-> CounterNew(quotas[k])]]
    /\ created' = [k \in 1..Len(lens) |->
                     [g |-> ChildAt(lens, k), total |-> quotas[k]]]
    /\ strategy' = strat
    /\ selected' = 0
    /\ id_set' = 0..(Len(lens) - 1)
    /\ raw' = raw + SeqSum(lens)
    /\ gstate' = "idle"
    /\ UNCHANGED <<emitted, exhausted, repolled, togen>>

\* GeneratorGroup::new_with_count and with_strategy on children that were
\* built with the ids and the delay strategies given, in any order, while the
\* ids of others were allocated to generators outside the group.
GroupNewWithIds(lens, quotas, strat, ids, delays, others) ==
    /\ gstate = "none"
    /\ id_set = {}
    /\ gens' = [k \in 1..Len(lens) |->
                  [g |-> ChildWith(lens, k, ids[k], delays[k]),
                   counter |-> CounterNew(quotas[k])]]
    /\ created' = [k \in 1..Len(lens) |->
                     [g |-> ChildWith(lens, k, ids[k], delays[k]),
                      total |-> quotas[k]]]
    /\ strategy' = strat
    /\ selected' = 0
    /\ id_set' = {ids[k] : k \in 1..Len(lens)} \cup others
    /\ raw' = raw + SeqSum(lens)
    /\ gstate' = "idle"
    /\ UNCHANGED <<emitted, exhausted, repolled, togen>>

\* The loop of next_with_id finds the group empty and returns None.
GroupReturnNone ==
    /\ gstate \in {"idle", "loop"}
    /\ gens = <<>>
    /\ gstate' = "done"
    /\ UNCHANGED <<gens, strategy, selected, created, emitted, exhausted,
                   repolled, id_set, raw, togen>>

\* The loop finds the counter of the current child over: it resets it,
\* selects a child and continues.
GroupSelectCurrent ==
    /\ gstate \in {"idle", "loop"}
    /\ gens # <<>>
    /\ CounterOver(CurrentMut.counter)
    /\ \E c \in Choose(strategy, 0, Len(gens)) :
          /\ selected' = c.index
          /\ strategy' = c.strategy
    /\ gens' = [gens EXCEPT ![selected + 1].counter =
                                CounterReset(CurrentMut.counter)]
    /\ gstate' = "loop"
    /\ UNCHANGED <<created, emitted, exhausted, repolled, id_set, raw,
                   togen>>

\* The loop counts one on the current child, polls it and returns its element
\* with its id.
GroupEmit ==
    /\ gstate \in {"idle", "loop"}
    /\ gens # <<>>
    /\ ~CounterOver(CurrentMut.counter)
    /\ CurrentMut.g.seq # <<>>
    /\ gens' = [gens EXCEPT ![selected + 1] =
                   [g |-> [id |-> CurrentMut.g.id,
                           seq |-> Tail(CurrentMut.g.seq)],
                    counter |-> CounterCount(CurrentMut.counter)]]
    /\ emitted' = Append(emitted,
                         [op |-> GeneratorNextWithId(CurrentMut.g).op,
                          delay |-> Head(CurrentMut.g.seq).delay,
                          id |-> GeneratorNextWithId(CurrentMut.g).id,
                          live |-> Len(gens) = Len(created)])
    /\ gstate' = "idle"
    /\ UNCHANGED <<strategy, selected, created, exhausted, repolled, id_set,
                   raw, togen>>

\* The loop counts one on the current child, polls it and is returned None:
\* the child is removed and dropped, and the loop continues.
GroupRemove ==
    /\ gstate \in {"idle", "loop"}
    /\ gens # <<>>
    /\ ~CounterOver(CurrentMut.counter)
    /\ CurrentMut.g.seq = <<>>
    /\ \E r \in RemoveCurrentAndReselect(
                   [gens EXCEPT ![selected + 1].counter =
                                    CounterCount(CurrentMut.counter)],
                   selected, strategy) :
          /\ gens' = r.gens
          /\ selected' = r.selected
          /\ strategy' = r.strategy
    /\ exhausted' = exhausted \cup {CurrentMut.g.id}
    /\ repolled' = (repolled \/ CurrentMut.g.id \in exhausted)
    /\ id_set' = FreeId(id_set, CurrentMut.g.id)
    /\ gstate' = "loop"
    /\ UNCHANGED <<created, emitted, raw, togen>>

\* The children of scenario S3: [1..5] and [6..10] with the quotas (2, 3).
S3Lens == <<5, 5>>
S3Quotas == <<2, 3>>

GroupNext ==
    /\ \/ /\ gstate = "none"
          /\ \E n \in GroupSizes :
               \E lens \in {l \in [1..n -> 0..MaxTotal] :
                               SeqSum(l) <= MaxTotal},
                  quotas \in [1..n -> 0..MaxQuota],
                  strat \in GeneratorGroupStrategy(n) :
                   GroupNewWithCount(lens, quotas, strat)
       \/ GroupNewWithCount(S3Lens, S3Quotas, DefaultStrategy)
       \/ GroupReturnNone
       \/ GroupSelectCurrent
       \/ GroupEmit
       \/ GroupRemove
    /\ UNCHANGED <<orchPc, yielded, sender_map, join_handles, chan, pc, cur,
                   acc, err, history, now, db, sent, called, late,
                   droppedQueued, auxVars, lockVars, pool, genLast, togen,
                   takeVars, netVars,
                   regVars, chooseVars,
                   allocVars>>

GroupSpec == Init /\ [][GroupNext]_vars

\* The group is polled by one task that awaits its next element for as long as
\* the loop of next_with_id has a step to take.
GroupLiveSpec == GroupSpec /\ WF_vars(gstate # "none" /\ GroupNext)

\* ------------------------------- the public operations of the group

\* GeneratorGroup::push_generator_with_ratio(gen, total), gen built over the
\* next len elements of the raw generator; push_generator is the case
\* total = 1.
GroupPushGenerator(len, total) ==
    /\ gstate \in {"idle", "done"}
    /\ Len(created) < 3
    /\ LET a == AllocId(id_set)
           g == [id |-> a.id, seq |-> WrapSeq(TakeSeq(raw, len), "none")]
       IN /\ gens' = Append(gens, [g |-> g, counter |-> CounterNew(total)])
          /\ created' = Append(created, [g |-> g, total |-> total])
          /\ id_set' = a.set
    /\ raw' = raw + len
    /\ gstate' = "idle"
    /\ UNCHANGED <<strategy, selected, emitted, exhausted, repolled, togen>>

\* GeneratorGroup::remove_generator(index) with an index of the vector: the
\* child is removed and returned, and selected is left as it is.
GroupRemoveGenerator(index) ==
    /\ gstate = "idle"
    /\ index \in 0..(Len(gens) - 1)
    /\ gens' = RemoveGenerator(gens, index)
    /\ UNCHANGED <<gstate, strategy, selected, created, emitted, exhausted,
                   repolled, id_set, raw, togen>>

\* GeneratorGroup::remove_current_and_reselect called on a group whose
\* selected child exists.
GroupRemoveCurrent ==
    /\ gstate = "idle"
    /\ selected < Len(gens)
    /\ \E r \in RemoveCurrentAndReselect(gens, selected, strategy) :
          /\ gens' = r.gens
          /\ selected' = r.selected
          /\ strategy' = r.strategy
    /\ UNCHANGED <<gstate, created, emitted, exhausted, repolled, id_set,
                   raw, togen>>

\* The loop of next_with_id calls current_mut on a group that is not empty
\* and whose selected index is not in the vector: expect panics with
\* 'selected index should in the range'.
GroupCurrentPanics ==
    /\ gstate \in {"idle", "loop"}
    /\ gens # <<>>
    /\ selected >= Len(gens)
    /\ gstate' = "panicked"
    /\ UNCHANGED <<gens, strategy, selected, created, emitted, exhausted,
                   repolled, id_set, raw, togen>>

GroupOpsNext ==
    /\ \/ /\ gstate = "none"
          /\ \E n \in 1..2 :
               \E lens \in [1..n -> 0..1], quotas \in [1..n -> 1..MaxQuota],
                  strat \in GeneratorGroupStrategy(n) :
                   GroupNewWithCount(lens, quotas, strat)
       \/ \E len \in 0..1, total \in 1..MaxQuota :
               GroupPushGenerator(len, total)
       \/ \E index \in 0..2 : GroupRemoveGenerator(index)
       \/ GroupRemoveCurrent
       \/ GroupReturnNone
       \/ selected < Len(gens) /\ GroupSelectCurrent
       \/ selected < Len(gens) /\ GroupEmit
       \/ selected < Len(gens) /\ GroupRemove
       \/ GroupCurrentPanics
    /\ UNCHANGED <<orchPc, yielded, sender_map, join_handles, chan, pc, cur,
                   acc, err, history, now, db, sent, called, late,
                   droppedQueued, auxVars, lockVars, pool, genLast, togen,
                   takeVars, netVars, regVars, chooseVars, allocVars>>

GroupOpsSpec == Init /\ [][GroupOpsNext]_vars

\* ------------------------------------------------------- to_generator

\* The numbers of children of the groups that are converted.
ToGenSizes == 1..2

\* The sequences of n different ids out of 0..n.
IdsOfChildren(n) ==
    {ids \in [1..n -> 0..n] : \A j, k \in 1..n : j # k => ids[j] # ids[k]}

\* to_generator is called on a group that is not empty: the group is consumed
\* and collect_all starts to call get_without_delay.
ToGeneratorStart ==
    /\ gstate = "idle"
    /\ togen.state = "no"
    /\ gens # <<>>
    /\ togen' = [state |-> "collecting", from |-> Len(emitted),
                 first |-> gens[1].g.id, out |-> <<>>]
    /\ UNCHANGED <<gstate, gens, strategy, selected, created, emitted,
                   exhausted, repolled, id_set, raw>>

\* collect_all has been returned None and the group is dropped: a generator
\* is built over the pairs collected, with no id given to the builder, so
\* that build() allocates one.
ToGeneratorBuild ==
    /\ gstate = "done"
    /\ togen.state = "collecting"
    /\ LET a == AllocId(id_set)
           output == [k \in 1..(Len(emitted) - togen.from) |->
                        [op |-> emitted[togen.from + k].op,
                         delay |-> emitted[togen.from + k].delay]]
       IN /\ id_set' = a.set
          /\ togen' = [togen EXCEPT !.state = "built",
                                    !.out = <<[id |-> a.id, seq |-> output]>>]
    /\ UNCHANGED <<gstate, gens, strategy, selected, created, emitted,
                   exhausted, repolled, raw>>

ToGenNext ==
    /\ \/ /\ gstate = "none"
          /\ \E n \in ToGenSizes :
               \E lens \in {l \in [1..n -> 0..(MaxRaw + 1)] :
                               SeqSum(l) <= MaxRaw + 1},
                  quotas \in [1..n -> 0..MaxQuota],
                  strat \in GeneratorGroupStrategy(n),
                  ids \in IdsOfChildren(n),
                  delays \in [1..n -> Delays] :
                   \E others \in SUBSET ((0..n) \ {ids[k] : k \in 1..n}) :
                       GroupNewWithIds(lens, quotas, strat, ids, delays,
                                       others)
       \/ ToGeneratorStart
       \/ GroupReturnNone
       \/ GroupSelectCurrent
       \/ GroupEmit
       \/ GroupRemove
       \/ ToGeneratorBuild
    /\ UNCHANGED <<orchPc, yielded, sender_map, join_handles, chan, pc, cur,
                   acc, err, history, now, db, sent, called, late,
                   droppedQueued, auxVars, lockVars, pool, genLast, takeVars,
                   netVars, regVars,
                   chooseVars,
                   allocVars>>

ToGenSpec == Init /\ [][ToGenNext]_vars

\* ----------------------------------------------------- the raw generator

\* A guard of Global::gen that is dropped before gen_n is called: nobody holds
\* the Mutex while the elements are generated.
GenGuardDropped(t) == None

\* The holder of Global::gen while thread t is in the `if let` of take_seq:
\* the MutexGuard is a temporary of the scrutinee and lives to the end of the
\* block, so t holds the Mutex throughout gen_n.
GenGuardHeld(t) == Some(t)

\* The positions in calls of the calls of thread t that have not returned.
OpenCalls(t) == {k \in 1..Len(calls) : calls[k].t = t /\ ~calls[k].returned}

\* Thread t calls take_seq(n) and locks Global::gen.
TakeSeqLock(t, n) ==
    /\ OpenCalls(t) = {}
    /\ genLock = None
    /\ Len(calls) < MaxCalls
    /\ raw + n - 1 <= 2 * MaxRaw
    /\ genLock' = GenGuardHeld(t)
    /\ calls' = Append(calls, [t |-> t, n |-> n, out |-> <<>>,
                               returned |-> FALSE])
    /\ UNCHANGED raw

\* One iteration of the loop of gen_n in the call of thread t: gen() returns
\* the next element of the raw generator, which is pushed to the Vec.
GenN(t) ==
    /\ \E k \in OpenCalls(t) :
          /\ Len(calls[k].out) < calls[k].n
          /\ calls' = [calls EXCEPT ![k].out = Append(calls[k].out, raw)]
    /\ raw' = raw + 1
    /\ UNCHANGED genLock

\* The loop of gen_n is over: take_seq returns the Vec as an iterator and the
\* guard is dropped.
TakeSeqReturn(t) ==
    /\ \E k \in OpenCalls(t) :
          /\ Len(calls[k].out) = calls[k].n
          /\ calls' = [calls EXCEPT ![k].returned = TRUE]
    /\ genLock' = IF genLock = Some(t) THEN None ELSE genLock
    /\ UNCHANGED raw

RawNext ==
    /\ \/ \E t \in Ids, n \in 0..MaxRaw : TakeSeqLock(t, n)
       \/ \E t \in Ids : GenN(t)
       \/ \E t \in Ids : TakeSeqReturn(t)
    /\ UNCHANGED <<orchPc, yielded, sender_map, join_handles, chan, pc, cur,
                   acc, err, history, now, db, sent, called, late,
                   droppedQueued, auxVars, lockVars, id_set, pool, genLast,
                   groupVars, netVars,
                   regVars, chooseVars,
                   allocVars>>

RawSpec == Init /\ [][RawNext]_vars

\* ------------------------------------------------------------ the nemesis

\* The servers of a cluster of n servers: (0..self.size()).
Servers(n) == 0..(n - 1)

\* MockCluster::new(n): every server is connected to every other one.
FullyConnected(n) == {<<a, b>> \in Servers(n) \X Servers(n) : a # b}

\* A majority of one server less than half.
MajorityHalf(n) == n \div 2

\* NemesisCalculator::majority.
Majority(n) == (n \div 2) + 1

\* A record of the link in the other direction.
ClogLinkSingleReversed(fst, snd, recorder) == recorder \cup {<<snd, fst>>}

\* clog_link_single_record: recorder.entry(fst).or_default().insert(snd).
ClogLinkSingleRecord(fst, snd, recorder) == recorder \cup {<<fst, snd>>}

\* A record of one direction only.
ClogLinkOneWayRecord(fst, snd, recorder) ==
    ClogLinkSingleRecord(fst, snd, recorder)

\* clog_link_both_record: the link is recorded in both directions.
ClogLinkBothRecord(fst, snd, recorder) ==
    ClogLinkSingleRecord(snd, fst, ClogLinkSingleRecord(fst, snd, recorder))

\* The recorder after clog_link_both_record(pair[1], pair[2], ..) was called
\* for every pair of the set pairs, in any order.
RECURSIVE RecordAll(_, _)
RecordAll(pairs, recorder) ==
    IF pairs = {}
      THEN recorder
      ELSE LET pair == CHOOSE q \in pairs : TRUE
           IN RecordAll(pairs \ {pair},
                        ClogLinkBothRecord(pair[1], pair[2], recorder))

\* An assertion that lets a set as large as the cluster pass.
FeasibleOrEqual(k, n) == k <= n

\* The assertions of partition_halves and partition_random_n: the number of
\* servers set apart is smaller than the size of the cluster.
Feasible(k, n) == k < n

\* set2 without the difference: all the servers.
HalvesSet2All(n, set1) == Servers(n)

\* partition_halves: set2 is total.difference(&set1).
HalvesSet2(n, set1) == Servers(n) \ set1

\* partition_halves: every link between set1 and set2 is recorded both ways;
\* None when the assertion fails.
PartitionHalves(n, set1) ==
    IF Feasible(Cardinality(set1), n)
      THEN Some(RecordAll(set1 \X HalvesSet2(n, set1), {}))
      ELSE None

\* partition_random_n: the records it may return, one for each set of k
\* servers the random numbers may make; None when the assertion fails.
PartitionRandomN(n, k) ==
    IF Feasible(k, n)
      THEN {PartitionHalves(n, part) :
               part \in {p \in SUBSET Servers(n) : Cardinality(p) = k}}
      ELSE {None}

\* select_numbers_from_range(range, count): count numbers of 0..range-1,
\* evenly spaced from 0 on. The spacing is the rounded-up range / count or the
\* rounded-down (range - 1) / (count - 1): either may be the one computed.
SelectNumbersFromRange(range, count) ==
    LET up == (range + count - 1) \div count
        down == (range - 1) \div (count - 1)
    IN IF count = 0 THEN {{}}
       ELSE IF count = 1 THEN {{0}}
       ELSE {{k * up : k \in 0..(count - 1)},
             {k * down : k \in 0..(count - 1)}}

\* An expected set that is empty: every link is to be clogged.
RingExpectedNone(i, n, selection) == {}

\* partition_majorities_ring: the servers at the selected distances after i,
\* modulo the size, of which those below i are filtered out.
RingExpected(i, n, selection) ==
    {v \in UNION {OverflowingAddRange(x, i + 1, 0, n) : x \in selection} :
        v >= i}

\* The servers to be clogged with i, those below i included.
RingClogBelowToo(i, n, expected) == Servers(n) \ expected

\* partition_majorities_ring: total.difference(&expected), of which only
\* those not below i are clogged with i.
RingToBeClogged(i, n, expected) ==
    {x \in Servers(n) \ expected : x >= i}

\* partition_majorities_ring with the numbers selection.
PartitionMajoritiesRing(n, selection) ==
    Some(RecordAll(UNION {{i} \X RingToBeClogged(i, n,
                                     RingExpected(i, n, selection)) :
                             i \in Servers(n)}, {}))

\* The first k servers other than leader, in ascending order:
\* (0..size).filter(|x| x != &leader).take(k).
FirstNonLeaders(n, leader, k) ==
    {x \in Servers(n) \ {leader} :
        Cardinality({y \in Servers(n) \ {leader} : y < x}) < k}

\* partition_leader_and_majority with the leader the cluster names.
PartitionLeaderAndMajority(n, leader) ==
    Some(RecordAll(FirstNonLeaders(n, leader, Majority(n) - 1) \X {leader},
                   {}))

\* The recorder after clog_link_single_record(pair[1], pair[2], ..) was
\* called for every pair of the set pairs, in any order.
RECURSIVE RecordAllSingle(_, _)
RecordAllSingle(pairs, recorder) ==
    IF pairs = {}
      THEN recorder
      ELSE LET pair == CHOOSE q \in pairs : TRUE
           IN RecordAllSingle(pairs \ {pair},
                              ClogLinkSingleRecord(pair[1], pair[2],
                                                   recorder))

\* leader_send_to_majority_but_cannot_receive with the leader the cluster
\* names.
LeaderSendToMajorityButCannotReceive(n, leader) ==
    Some(RecordAllSingle(
             FirstNonLeaders(n, leader, Majority(n) - 1) \X {leader}, {}))

\* MockCluster::new(n).
ClusterNew(n) ==
    /\ nstate = "none"
    /\ size' = n
    /\ connections' = FullyConnected(n)
    /\ nstate' = "ready"
    /\ UNCHANGED <<record, nemesis>>

\* calculate_nemesis returns the record rec for the nemesis nem, or panics
\* when rec is None.
Calculated(nem, rec) ==
    /\ nstate = "ready"
    /\ nemesis' = nem
    /\ record' = rec
    /\ nstate' = IF rec = None THEN "aborted" ELSE "calculated"
    /\ UNCHANGED <<size, connections>>

\* calculate_nemesis(PartitionHalves(servers)).
CalculateHalves(servers) ==
    Calculated([kind |-> "PartitionHalves", servers |-> servers],
               PartitionHalves(size, servers))

\* calculate_nemesis(PartitionRandomN(k)).
CalculateRandomN(k) ==
    \E rec \in PartitionRandomN(size, k) :
        Calculated([kind |-> "PartitionRandomN", n |-> k], rec)

\* calculate_nemesis(PartitionMajoritiesRing).
CalculateRing ==
    \E selection \in SelectNumbersFromRange(size - 1, Majority(size) - 1) :
        Calculated([kind |-> "PartitionMajoritiesRing",
                    selection |-> selection],
                   PartitionMajoritiesRing(size, selection))

\* calculate_nemesis(PartitionLeaderAndMajority), the cluster naming leader.
CalculateLeaderAndMajority(leader) ==
    Calculated([kind |-> "PartitionLeaderAndMajority", leader |-> leader],
               PartitionLeaderAndMajority(size, leader))

\* calculate_nemesis(LeaderSendToMajorityButCannotReceive), the cluster
\* naming leader.
CalculateLeaderSend(leader) ==
    Calculated([kind |-> "LeaderSendToMajorityButCannotReceive",
                leader |-> leader],
               LeaderSendToMajorityButCannotReceive(size, leader))

\* A link that is clogged in both directions.
ClogLinkMirrored(conns, fst, snd) == conns \ {<<fst, snd>>, <<snd, fst>>}

\* MockCluster::clog_link_single: snd is removed from the connections of fst.
ClogLinkSingle(conns, fst, snd) == conns \ {<<fst, snd>>}

\* NemesisExecutor::execute, the arm of Net: clog_link_single(k, x) for every
\* x of every net[k], in any order.
RECURSIVE ExecuteNet(_, _)
ExecuteNet(conns, net) ==
    IF net = {}
      THEN conns
      ELSE LET e == CHOOSE q \in net : TRUE
           IN ExecuteNet(ClogLinkSingle(conns, e[1], e[2]), net \ {e})

\* NemesisExecutor::execute on the Net record that was calculated.
Execute ==
    /\ nstate = "calculated"
    /\ connections' = ExecuteNet(connections, record[1])
    /\ nstate' = "executed"
    /\ UNCHANGED <<size, record, nemesis>>

NetNext ==
    /\ \/ \E n \in 1..MaxServers : ClusterNew(n)
       \/ \E servers \in SUBSET Servers(size) : CalculateHalves(servers)
       \/ \E k \in 0..(size + 1) : CalculateRandomN(k)
       \/ CalculateRing
       \/ \E leader \in Servers(size) : CalculateLeaderAndMajority(leader)
       \/ \E leader \in Servers(size) : CalculateLeaderSend(leader)
       \/ Execute
    /\ UNCHANGED <<orchPc, yielded, sender_map, join_handles, chan, pc, cur,
                   acc, err, history, now, db, sent, called, late,
                   droppedQueued, auxVars, lockVars, genVars, groupVars,
                   takeVars, regVars,
                   chooseVars,
                   allocVars>>

NetSpec == Init /\ [][NetNext]_vars

\* ------------------------------------------- executions during a run

\* The numbers of servers of the clusters that records are executed on.
ExecSizes == 1..3

\* NemesisRecord::Noop.
NoopRecord == [kind |-> "Noop"]

\* NemesisRecord::Net(net).
NetRecord(net) == [kind |-> "Net", net |-> net]

\* The records over the links of a cluster of n servers.
NemesisRecords(n) ==
    {NoopRecord} \cup {NetRecord(net) : net \in SUBSET FullyConnected(n)}

\* NemesisExecutor::execute(rec) on the cluster, called while
\* JepsenClient::run is in its loop.
ExecuteRecord(rec) ==
    /\ nstate = "ready"
    /\ runPc = "loop"
    /\ Len(executions) < MaxExec
    /\ connections' = IF rec.kind = "Net"
                        THEN ExecuteNet(connections, rec.net)
                        ELSE connections
    /\ executions' = Append(executions, rec)
    /\ UNCHANGED <<nstate, size, record, nemesis, register, recovered, runPc>>

\* JepsenClient::run: the group has returned None and the senders are
\* dropped.
RunDropSenders ==
    /\ nstate = "ready"
    /\ runPc = "loop"
    /\ runPc' = "dropped"
    /\ UNCHANGED <<netVars, register, recovered, executions>>

\* JepsenClient::run: the workers are joined.
RunJoin ==
    /\ runPc = "dropped"
    /\ runPc' = "joined"
    /\ UNCHANGED <<netVars, register, recovered, executions>>

\* JepsenClient::run: the history is handed to the checker.
RunCheck ==
    /\ runPc = "joined"
    /\ runPc' = "checked"
    /\ UNCHANGED <<netVars, register, recovered, executions>>

ExecNext ==
    /\ \/ \E n \in ExecSizes : ClusterNew(n) /\ UNCHANGED regVars
       \/ \E rec \in NemesisRecords(size) : ExecuteRecord(rec)
       \/ RunDropSenders
       \/ RunJoin
       \/ RunCheck
    /\ UNCHANGED <<orchPc, yielded, sender_map, join_handles, chan, pc, cur,
                   acc, err, history, now, db, sent, called, late,
                   droppedQueued, auxVars, lockVars, genVars, groupVars,
                   takeVars, chooseVars,
                   allocVars>>

ExecSpec == Init /\ [][ExecNext]_vars

\* ------------------------------------- concurrent GeneratorId::new

\* The threads that call Global::get_id and drop the GeneratorId.
AllocThreads == 1..3

\* Thread t is in alloc_id: get_next_id locks the pool, finds the smallest
\* free id and unlocks.
AllocGetNextId(t) ==
    /\ allocs.pc[t] = "idle"
    /\ allocs' = [allocs EXCEPT !.pc[t] = "chose",
                                !.id[t] = GetNextId(id_set)]
    /\ UNCHANGED id_set

\* Thread t is in alloc_id: it locks the pool again and inserts the id that
\* get_next_id returned, whatever the pool holds by now. When
\* the id is in the pool the handle is replaced and the debug assertion
\* 'insert must be success' fails: a debug build panics, a release build
\* returns the id.
AllocInsert(t) ==
    LET id == allocs.id[t]
    IN /\ allocs.pc[t] = "chose"
       /\ id_set' = id_set \cup {id}
       /\ IF id \in id_set
            THEN \E next \in {"live", "panicked"} :
                    allocs' = [allocs EXCEPT
                                 !.pc[t] = next,
                                 !.id[t] = id,
                                 !.failed = allocs.failed \cup {"insert"}]
            ELSE allocs' = [allocs EXCEPT !.pc[t] = "live", !.id[t] = id]

\* Thread t drops its GeneratorId: free_id removes the id, and the debug
\* assertion 'free must be success' fails when it was not in the pool.
AllocDrop(t) ==
    /\ allocs.pc[t] = "live"
    /\ id_set' = FreeId(id_set, allocs.id[t])
    /\ allocs' = [allocs EXCEPT
                    !.pc[t] = "idle",
                    !.failed = IF allocs.id[t] \in id_set
                                 THEN allocs.failed
                                 ELSE allocs.failed \cup {"free"}]

AllocNext ==
    /\ \E t \in AllocThreads :
          \/ AllocGetNextId(t)
          \/ AllocInsert(t)
          \/ AllocDrop(t)
    /\ UNCHANGED <<orchPc, yielded, sender_map, join_handles, chan, pc, cur,
                   acc, err, history, now, db, sent, called, late,
                   droppedQueued, auxVars, lockVars, raw, pool, genLast,
                   groupVars, takeVars, netVars, regVars, chooseVars>>

AllocSpec == Init /\ [][AllocNext]_vars

\* ------------------------------------------------ the calls of choose

\* The strategies choose is called on: RoundRobin(last) with last an index,
\* an index that a removal has left behind, or usize::MAX; Random; Chain.
ChosenStrategies ==
    {[kind |-> "RoundRobin", last_choose |-> i] :
        i \in (0..2) \cup {UsizeMax}}
        \cup {[kind |-> "Random", last_choose |-> 0],
              [kind |-> "Chain", last_choose |-> 0]}

\* GeneratorGroup::with_strategy before the first selection.
StrategyNew(strat) ==
    /\ gstate = "none"
    /\ chooseLog = <<>>
    /\ strategy # strat
    /\ strategy' = strat
    /\ UNCHANGED <<gstate, gens, selected, created, emitted, exhausted,
                   repolled, togen, chooseLog>>

\* GeneratorGroup::select_current on a group of n children:
\* self.strategy.choose(0..n), and the index is selected.
StrategyChoose(n) ==
    /\ gstate = "none"
    /\ Len(chooseLog) < MaxChoose
    /\ \E c \in Choose(strategy, 0, n) :
          /\ strategy' = c.strategy
          /\ selected' = c.index
          /\ chooseLog' = Append(chooseLog, [strategy |-> strategy, n |-> n,
                                             index |-> c.index])
    /\ UNCHANGED <<gstate, gens, created, emitted, exhausted, repolled,
                   togen>>

ChooseNext ==
    /\ \/ \E strat \in ChosenStrategies : StrategyNew(strat)
       \/ \E n \in GroupSizes : StrategyChoose(n)
    /\ UNCHANGED <<orchPc, yielded, sender_map, join_handles, chan, pc, cur,
                   acc, err, history, now, db, sent, called, late,
                   droppedQueued, auxVars, lockVars, genVars, takeVars,
                   netVars, regVars, allocVars>>

ChooseSpec == Init /\ [][ChooseNext]_vars

\* ------------------------------------------------- the nemesis register

\* The capacities of the registers.
RegisterCaps == 1..2

\* NemesisRegisterStrategy: FIFO(k) and RandomQueue(k).
NemesisRegisterStrategy ==
    {[kind |-> kind, k |-> k] :
        kind \in {"FIFO", "RandomQueue"}, k \in RegisterCaps}

\* The Net records that are pushed: those of a cluster of two servers.
PushedRecords == {NetRecord(net) : net \in SUBSET FullyConnected(2)}

\* The sequence q without its element at position i.
RemoveAt(q, i) == SubSeq(q, 1, i - 1) \o SubSeq(q, i + 1, Len(q))

\* A full FIFO queue that lets go of its newest record.
PushPopsNewest(reg) ==
    IF Len(reg.queue) < reg.strategy.k THEN {} ELSE {Len(reg.queue)}

\* The positions of the queue a push may pop: none when the queue is not
\* full, the front under FIFO, any position under RandomQueue.
PushPops(reg) ==
    IF Len(reg.queue) < reg.strategy.k
      THEN {}
      ELSE IF reg.strategy.kind = "FIFO" THEN {1} ELSE 1..Len(reg.queue)

\* NemesisRegister::with_strategy on a register that was just created.
RegisterWithStrategy(strat) ==
    /\ register.queue = <<>>
    /\ executions = <<>>
    /\ register.strategy # strat
    /\ register' = [register EXCEPT !.strategy = strat]
    /\ UNCHANGED <<recovered, executions, runPc>>

\* The record rec was executed and is pushed into the register: a record
\* that the strategy pops is recovered.
RegisterPush(rec) ==
    /\ Len(executions) < MaxPush
    /\ executions' = Append(executions, rec)
    /\ IF PushPops(register) = {}
         THEN /\ register' = [register EXCEPT
                                 !.queue = Append(register.queue, rec)]
              /\ recovered' = recovered
         ELSE \E i \in PushPops(register) :
                 /\ register' = [register EXCEPT
                                    !.queue = Append(RemoveAt(register.queue,
                                                              i), rec)]
                 /\ recovered' = Append(recovered, register.queue[i])
    /\ UNCHANGED runPc

\* A recovery is asked for: the next record of the register is popped and
\* recovered.
RegisterPop ==
    /\ register.queue # <<>>
    /\ \E i \in (IF register.strategy.kind = "FIFO"
                    THEN {1} ELSE 1..Len(register.queue)) :
          /\ register' = [register EXCEPT
                             !.queue = RemoveAt(register.queue, i)]
          /\ recovered' = Append(recovered, register.queue[i])
    /\ UNCHANGED <<executions, runPc>>

RegisterNext ==
    /\ \/ \E strat \in NemesisRegisterStrategy : RegisterWithStrategy(strat)
       \/ \E rec \in PushedRecords : RegisterPush(rec)
       \/ RegisterPop
    /\ UNCHANGED <<orchPc, yielded, sender_map, join_handles, chan, pc, cur,
                   acc, err, history, now, db, sent, called, late,
                   droppedQueued, auxVars, lockVars, genVars, groupVars,
                   takeVars, netVars, chooseVars,
                   allocVars>>

RegisterSpec == Init /\ [][RegisterNext]_vars

\* ------------------------------------------------------------ properties

\* The entries of process p, in the order of the history.
EntriesOf(p) == SelectSeq(history, LAMBDA e : e.process = p)

\* C1: under any interleaving of the workers, the entries of each process
\* alternate between an Invoke and one closing entry (Ok, Fail or Info), so
\* that a process has at most one open invocation at any time, and no
\* invocation is open when run() has finished.
C1_OneOpenInvocationPerProcess ==
    \A p \in Ids :
        LET e == EntriesOf(p)
        IN /\ \A i \in 1..Len(e) : (e[i].type = "invoke") <=> (i % 2 = 1)
           /\ orchPc = "done" => Len(e) % 2 = 0

\* run() has finished a run in which the invocations of the two processes
\* overlapped and each process closed its own.
C1_OverlappingRunFinished ==
    /\ orchPc = "done"
    /\ Len(history) = 4
    /\ history[1].type = "invoke"
    /\ history[2].type = "invoke"
    /\ history[1].process # history[2].process

\* C2: the index of each entry of the history is its zero-based position in
\* the list, whatever the interleaving of the workers that append to it.
C2_IndexIsPosition ==
    \A i \in 1..Len(history) : history[i].index = i - 1

\* Two workers have appended four entries, their pushes interleaved.
C2_TwoWorkersAppended ==
    /\ Len(history) >= 4
    /\ history[1].process # history[2].process
    /\ history[3].type # "invoke"

\* C3: the time of the entries never decreases along the history, under any
\* interleaving of the workers: each timestamp is read inside the push that
\* appends the entry, with the lock of the history held.
C3_TimeNonDecreasing ==
    \A i \in 1..(Len(history) - 1) : history[i].time <= history[i + 1].time

\* The clock advanced between the pushes of two different workers.
C3_ClockAdvancedBetweenPushes ==
    \E i \in 1..(Len(history) - 1) :
        /\ history[i].time < history[i + 1].time
        /\ history[i].process # history[i + 1].process

C5_FifoPerWorker ==
    \A p \in Ids :
        LET e == EntriesOf(p)
        IN /\ Len(e) <= 2 * Len(sent[p])
           /\ \A i \in 1..Len(e) :
                 IF i % 2 = 1
                   THEN /\ e[i].type = "invoke"
                        /\ e[i].value = sent[p][(i + 1) \div 2]
                   ELSE e[i].type # "invoke"

\* Two different ops were sent to one worker, the senders were dropped while
\* an op was still queued, and the worker has handled both ops.
C5_TwoQueuedOpsHandled ==
    \E p \in Ids :
        /\ Len(sent[p]) = 2
        /\ sent[p][1] # sent[p][2]
        /\ droppedQueued
        /\ Len(EntriesOf(p)) = 4

\* C6: the checker is reached only when every worker has ended, and then each
\* op the group yielded has one Invoke and one closing entry in the history,
\* whose length is twice the number of ops yielded: the ops that were queued
\* when the senders were dropped are not lost.
C6_CheckerAfterAllWorkers ==
    orchPc \in {"check", "done"} =>
        /\ \A w \in Ids : pc[w] \in {"unspawned", "exited"}
        /\ \A w \in Ids : chan[w] = <<>>
        /\ Len(history) = 2 * yielded
        /\ Cardinality({i \in 1..Len(history) :
                           history[i].type = "invoke"}) = yielded

\* The checker is reached in a run whose senders were dropped while ops were
\* still queued.
C6_CheckerAfterQueuedDrop ==
    /\ orchPc = "check"
    /\ droppedQueued
    /\ yielded >= 2

\* C7: for every finite group, whatever the delay strategies of its
\* generators, run() comes to the checker: the orchestrator and the workers
\* never block each other forever. In the cooperative executor this says that
\* some task can take a step as long as run() has not finished.
C7_RunNeverBlocked ==
    orchPc = "done" \/ ENABLED CoopNext

\* C8: when an adapter call of an op does not return within the deadline of
\* the adapter, the worker closes the op with one Info entry that carries an
\* error.
C8_TimeoutClosesWithInfo ==
    \A w \in Ids :
        (late[w] /\ pc[w] \in {"recv", "exited"}) =>
            LET e == EntriesOf(w)
            IN /\ e # <<>>
               /\ e[Len(e)].type = "info"
               /\ e[Len(e)].error # None

ReadsOf(op) ==
    {Children(op)[k] : k \in {j \in 1..Len(Children(op)) :
                                 Children(op)[j].tag = "r"}}

\* C10: every Read recorded in an Invoke entry, as the op or as a child of a
\* Txn, carries no value.
C10_InvokedReadCarriesNone ==
    \A i \in 1..Len(history) :
        history[i].type = "invoke" =>
            \A r \in ReadsOf(history[i].value) : r.val = None

\* C11: a channel and a worker are created the first time an id is
\* dispatched to, and a dispatch to an id that is in the sender map spawns
\* nothing and leaves the map as it is: no id has two join handles, and while
\* the loop of run() is running the ids of the handles, the keys of the sender
\* map, the ids dispatched to and the workers spawned are the same ids.
C11_OneWorkerPerId ==
    /\ \A i, j \in 1..Len(join_handles) :
          i # j => join_handles[i] # join_handles[j]
    /\ orchPc = "loop" =>
          /\ Len(join_handles) = Cardinality(sender_map)
          /\ \A id \in Ids : (sent[id] # <<>>) <=> (id \in sender_map)
          /\ \A id \in Ids : (pc[id] # "unspawned") <=> (id \in sender_map)

\* Two ops were dispatched to one id, and one worker was spawned.
C11_SecondDispatchSpawnedNothing ==
    /\ orchPc = "loop"
    /\ Len(join_handles) = 1
    /\ \E id \in Ids : Len(sent[id]) = 2

C13_SmallestFreeIdAllocated ==
    /\ genLast.kind \in {"build", "split"} =>
          /\ genLast.allocated \notin genLast.before
          /\ \A k \in 0..(genLast.allocated - 1) : k \in genLast.before
          /\ genLast.after = genLast.before \cup {genLast.allocated}
    /\ genLast.kind \in {"drop", "chain"} =>
          /\ genLast.freed \in genLast.before
          /\ genLast.after = genLast.before \ {genLast.freed}
    /\ genLast.kind # "none" => id_set = genLast.after
    /\ id_set = {pool[i].id : i \in 1..Len(pool)}
    /\ Cardinality(id_set) = Len(pool)
    /\ pool = <<>> => id_set = {}

\* An id that was released is allocated again while a greater id is held.
C13_ReleasedIdAllocatedAgain ==
    /\ genLast.kind = "build"
    /\ \E k \in genLast.before : genLast.allocated < k

\* C14: split_at(n) of a generator g returns a head of min(n, len(g)) elements
\* and a tail such that the elements of the head followed by those of the
\* tail are the elements of g, in order, each with its delay.
C14_SplitAtPartitions ==
    genLast.kind = "split" =>
        /\ Len(genLast.head.seq) =
              (IF genLast.n < Len(genLast.g.seq)
                 THEN genLast.n ELSE Len(genLast.g.seq))
        /\ Len(genLast.head.seq) + Len(genLast.tail.seq) = Len(genLast.g.seq)
        /\ genLast.head.seq \o genLast.tail.seq = genLast.g.seq

\* A generator was split into a head and a tail that both have elements.
C14_SplitInTheMiddle ==
    /\ genLast.kind = "split"
    /\ genLast.head.seq # <<>>
    /\ genLast.tail.seq # <<>>

\* C15: chain(a, b) yields the (op, delay) pairs of a in order, then those of
\* b in order, and nothing else; chaining the two halves of split_at(n) yields
\* the sequence that was split.
C15_ChainConcatenates ==
    /\ genLast.kind = "chain" =>
          /\ Len(genLast.out.seq) = Len(genLast.a.seq) + Len(genLast.b.seq)
          /\ \A k \in 1..Len(genLast.a.seq) :
                genLast.out.seq[k] = genLast.a.seq[k]
          /\ \A k \in 1..Len(genLast.b.seq) :
                genLast.out.seq[Len(genLast.a.seq) + k] = genLast.b.seq[k]
    /\ genLast.kind = "split_chain" => genLast.out.seq = genLast.g.seq

\* Two generators that both have elements were chained.
C15_ChainedTwoNonEmpty ==
    /\ genLast.kind = "chain"
    /\ genLast.a.seq # <<>>
    /\ genLast.b.seq # <<>>

\* C16: split_at leaves its id to the head and gives the tail the smallest
\* free id, so that the id set grows by that one id; chain returns a
\* generator with the id of the first and releases the id of the second, so
\* that the id set shrinks by that one id, which is then the next allocated
\* when it is the smallest free.
C16_IdsAcrossSplitAndChain ==
    /\ genLast.kind = "split" =>
          /\ genLast.head.id = genLast.g.id
          /\ genLast.tail.id \notin genLast.before
          /\ \A k \in 0..(genLast.tail.id - 1) : k \in genLast.before
          /\ id_set = genLast.before \cup {genLast.tail.id}
          /\ Cardinality(id_set) = Cardinality(genLast.before) + 1
    /\ genLast.kind = "chain" =>
          /\ genLast.out.id = genLast.a.id
          /\ id_set = genLast.before \ {genLast.b.id}
          /\ Cardinality(id_set) = Cardinality(genLast.before) - 1
          /\ (\A k \in 0..(genLast.b.id - 1) : k \in id_set) =>
                AllocId(id_set).id = genLast.b.id
    /\ genLast.kind = "split_chain" =>
          /\ genLast.out.id = genLast.g.id
          /\ id_set = genLast.before

\* Two generators were chained and the id of the second, which is released,
\* is the smallest free id.
C16_ChainReleasedSmallestFree ==
    /\ genLast.kind = "chain"
    /\ Len(pool) >= 1
    /\ \A k \in 0..(genLast.b.id - 1) : k \in id_set

\* The elements the group has returned, in order.
EmittedOps == [k \in 1..Len(emitted) |-> emitted[k].op]

\* The elements of the child at position c of the children the group was
\* created with.
OpsOf(c) == {created[c].g.seq[j].op : j \in 1..Len(created[c].g.seq)}

\* The position, among the children the group was created with, of the child
\* that holds the element op.
OwnerOf(op) == CHOOSE c \in 1..Len(created) : op \in OpsOf(c)

\* chain(g0, chain(g1, ...)) over the children cs.
RECURSIVE ChainAll(_)
ChainAll(cs) ==
    IF cs = <<>>
      THEN <<>>
      ELSE StreamChain(Head(cs).g.seq, ChainAll(Tail(cs)))

\* C17: a group with the strategy Chain over the children g0, g1, ... returns
\* exactly the sequence of chain(g0, chain(g1, ...)): what it has returned is
\* always a prefix of that sequence, and all of it when the group returns
\* None, whatever the lengths of the children, empty ones included.
C17_ChainGroupIsChain ==
    (gstate # "none" /\ strategy.kind = "Chain") =>
        LET all == ChainAll(created)
            expected == [k \in 1..Len(all) |-> all[k].op]
        IN /\ Len(emitted) <= Len(expected)
           /\ EmittedOps = SubSeq(expected, 1, Len(emitted))
           /\ gstate = "done" => Len(emitted) = Len(expected)

\* A Chain group of three children, one of them empty and the two others not,
\* has returned None after the elements of two different children.
C17_ChainGroupWithEmptyChildDone ==
    /\ gstate = "done"
    /\ strategy.kind = "Chain"
    /\ Len(created) = 3
    /\ \E c \in 1..Len(created) : created[c].g.seq = <<>>
    /\ Len(emitted) >= 3
    /\ emitted[1].id # emitted[Len(emitted)].id

\* The child, counted from 1, whose turn it is at position pos of a round
\* of the quotas.
RECURSIVE QuotaOwner(_, _)
QuotaOwner(pos, c) ==
    IF pos < created[c].total
      THEN c
      ELSE QuotaOwner(pos - created[c].total, c + 1)

\* The number of elements of one round of the quotas.
QuotaRound == SeqSum([c \in 1..Len(created) |-> created[c].total])

\* C18: under RoundRobin with the quotas q0..q(n-1), as long as no child has
\* been removed the group returns q_i consecutive elements of child i and
\* then moves to child (i+1) mod n, starting with child 0; and the children
\* [1..5] and [6..10] with the quotas (2, 3) are returned in the order
\* 1, 2, 6, 7, 8, 3, 4, 9, 10, 5.
C18_RoundRobinFollowsQuotas ==
    (gstate # "none" /\ strategy.kind = "RoundRobin") =>
        /\ \A k \in 1..Len(emitted) :
              emitted[k].live =>
                  OwnerOf(emitted[k].op) = QuotaOwner((k - 1) % QuotaRound, 1)
        /\ (gstate = "done" /\ Len(created) = Len(S3Lens)
              /\ \A c \in 1..Len(created) :
                    /\ Len(created[c].g.seq) = S3Lens[c]
                    /\ created[c].total = S3Quotas[c])
             => EmittedOps = <<1, 2, 6, 7, 8, 3, 4, 9, 10, 5>>

\* C19: every (op, id) the group returns has the id of the child the op was
\* drawn from, that is the child that was created over that element, under
\* every strategy.
C19_IdOfTheChildDrawnFrom ==
    \A k \in 1..Len(emitted) :
        emitted[k].id = created[OwnerOf(emitted[k].op)].g.id

\* A Random group has returned, after the removal of a child, an element of a
\* child that is neither the first child it was created with nor at the first
\* position of the group.
C19_ReturnedFromLaterChildAfterRemoval ==
    /\ strategy.kind = "Random"
    /\ gstate = "idle"
    /\ emitted # <<>>
    /\ ~emitted[Len(emitted)].live
    /\ emitted[Len(emitted)].id # created[1].g.id
    /\ selected > 0

\* C20: under every strategy a child that has returned None is removed from
\* the group at once, and is never polled again.
C20_ExhaustedChildNeverPolledAgain ==
    /\ ~repolled
    /\ \A k \in 1..Len(gens) : gens[k].g.id \notin exhausted

\* A Random group has removed a child that returned None, and has then
\* selected among the others and returned an element.
C20_RandomGroupWentOnAfterRemoval ==
    /\ strategy.kind = "Random"
    /\ exhausted # {}
    /\ gens # <<>>
    /\ emitted # <<>>
    /\ ~emitted[Len(emitted)].live

\* C21: for every strategy and every quota new_with_count accepts, a call of
\* next_with_id on a group of finite children returns after finitely many
\* iterations of its loop, and after finitely many calls the group returns
\* None.
C21_GroupCallsReturnAndEnd ==
    /\ (gstate = "loop") ~> (gstate \in {"idle", "done"})
    /\ (gstate # "none") ~> (gstate = "done")

\* The pairs the group has returned since to_generator was called.
CollectedSince(from) ==
    [k \in 1..(Len(emitted) - from) |->
        [op |-> emitted[from + k].op, delay |-> emitted[from + k].delay]]

\* C22: the generator to_generator returns holds exactly the (op, delay)
\* pairs that repeated selection on the group yielded until it was exhausted,
\* and its id is the id of the first child of the group, whatever the ids of
\* the children and the other ids allocated.
C22_ToGeneratorKeepsPairsAndFirstId ==
    togen.state = "built" =>
        /\ togen.out[1].seq = CollectedSince(togen.from)
        /\ togen.out[1].id = togen.first

\* The Vecs of the calls cs one after the other.
RECURSIVE ConcatOut(_)
ConcatOut(cs) ==
    IF cs = <<>> THEN <<>> ELSE Head(cs).out \o ConcatOut(Tail(cs))

\* C23: every take_seq(n) returns exactly the next n elements of the raw
\* generator in order, and the calls, in the order in which they locked the
\* generator, are given consecutive segments: taken one after the other they
\* are the elements generated so far, none twice and none skipped.
C23_TakeSeqConsecutiveSegments ==
    /\ ConcatOut(calls) = TakeSeq(1, raw - 1)
    /\ \A k \in 1..Len(calls) :
          /\ calls[k].returned => Len(calls[k].out) = calls[k].n
          /\ calls[k].out = TakeSeq(1 + Len(ConcatOut(SubSeq(calls, 1, k - 1))),
                                    Len(calls[k].out))

\* Two threads have each been returned a segment that is not empty, and one
\* of them has called again.
C23_TwoThreadsTookSegments ==
    /\ Len(calls) = 3
    /\ calls[1].returned /\ calls[1].n > 0
    /\ calls[2].returned /\ calls[2].n > 0
    /\ calls[1].t # calls[2].t
    /\ calls[3].out # <<>>

\* The positions of the elements x of the stream seq for which f(x)
\* satisfies p.
Passing(seq, f, p) ==
    {j \in 1..Len(seq) : ApplyPred(p, ApplyFn(f, seq[j].op))}

\* The k-th smallest position of the set of positions q.
KthOf(q, k) == CHOOSE j \in q : Cardinality({i \in q : i <= j}) = k

\* C24: g.map(f).filter(p).take(n) yields, in order, the first
\* min(n, available) elements f(x), x drawn from g, that satisfy p, each with
\* the delay that was paired with x; the result has the id of g and the id
\* set is as it was.
C24_MapFilterTake ==
    genLast.kind = "transform" =>
        LET src == genLast.g.seq
            q == Passing(src, genLast.f, genLast.p)
            out == genLast.out.seq
        IN /\ Len(out) = IF genLast.n < Cardinality(q)
                            THEN genLast.n ELSE Cardinality(q)
           /\ \A k \in 1..Len(out) :
                 /\ out[k].op = ApplyFn(genLast.f, src[KthOf(q, k)].op)
                 /\ out[k].delay = src[KthOf(q, k)].delay
           /\ genLast.out.id = genLast.g.id
           /\ genLast.after = genLast.before

\* A generator of two elements with different delays was mapped with
\* |x| x + 2 and filtered: the first element was dropped with its delay, and
\* the second was kept with its own.
C24_DroppedOneKeptOneWithDelay ==
    /\ genLast.kind = "transform"
    /\ genLast.f = "add2"
    /\ Len(genLast.g.seq) = 2
    /\ genLast.g.seq[1].delay # genLast.g.seq[2].delay
    /\ Len(genLast.out.seq) = 1
    /\ genLast.out.seq[1].op = genLast.g.seq[2].op + 2
    /\ genLast.out.seq[1].delay = "fixed"

\* The servers that server a has a link to and from.
TwoWay(a) ==
    {b \in Servers(size) \ {a} :
        <<a, b>> \in connections /\ <<b, a>> \in connections}

\* The record of PartitionMajoritiesRing has been executed on a fully
\* connected cluster.
RingExecuted ==
    nstate = "executed" /\ nemesis.kind = "PartitionMajoritiesRing"

\* C25: for a set S of fewer servers than the cluster has, the record of
\* PartitionHalves(S) is exactly the edges (a, b) and (b, a) with a in S and
\* b a server not in S; executed on a fully connected cluster it leaves the
\* links inside S and inside the complement open and the links between
\* them clogged in both directions.
C25_PartitionHalvesEdges ==
    (nemesis.kind = "PartitionHalves"
        /\ Cardinality(nemesis.servers) < size) =>
        LET S == nemesis.servers
            rest == Servers(size) \ S
        IN /\ nstate \in {"calculated", "executed"}
           /\ record = Some({<<a, b>> : a \in S, b \in rest}
                               \cup {<<b, a>> : a \in S, b \in rest})
           /\ nstate = "executed" =>
                 \A a, b \in Servers(size) :
                     a # b => ((<<a, b>> \in connections)
                                 <=> ((a \in S) <=> (b \in S)))

\* PartitionHalves({0, 1, 2}) has been executed on a cluster of 5: server 3
\* is linked to server 4 only.
C25_HalvesOfFiveExecuted ==
    /\ nstate = "executed"
    /\ nemesis.kind = "PartitionHalves"
    /\ size = 5
    /\ nemesis.servers = {0, 1, 2}
    /\ TwoWay(3) = {4}
    /\ TwoWay(0) = {1, 2}

\* C26: PartitionHalves(S) with S as large as the cluster or larger, and
\* PartitionRandomN(n) with n the size of the cluster or more, abort: no
\* record is returned and no link is clogged.
C26_InfeasibleNemesisAborts ==
    ((nemesis.kind = "PartitionHalves"
         /\ Cardinality(nemesis.servers) >= size)
        \/ (nemesis.kind = "PartitionRandomN" /\ nemesis.n >= size)) =>
        /\ nstate = "aborted"
        /\ record = None
        /\ connections = FullyConnected(size)

\* PartitionRandomN(3) has aborted on a cluster of 3.
C26_RandomNOfWholeClusterAborted ==
    /\ nstate = "aborted"
    /\ nemesis.kind = "PartitionRandomN"
    /\ size = 3
    /\ nemesis.n = size

\* C27 as stated: after PartitionMajoritiesRing every server can reach
\* exactly ceil(N/2) - 1 other servers.
C27_RingReachesCeilHalfMinusOne ==
    RingExecuted =>
        \A a \in Servers(size) :
            Cardinality(TwoWay(a)) = ((size + 1) \div 2) - 1

\* C27, amended: after PartitionMajoritiesRing every server can reach at
\* least floor(N/2) and at most floor(N/2) + 1 other servers, and exactly
\* N/2 of them when N is even.
C27_RingReachesHalf ==
    RingExecuted =>
        \A a \in Servers(size) :
            /\ Cardinality(TwoWay(a)) >= size \div 2
            /\ Cardinality(TwoWay(a)) <= (size \div 2) + 1
            /\ size % 2 = 0 => Cardinality(TwoWay(a)) = size \div 2

\* The ring of 4 has been executed: every server reaches 2 others.
C27_RingOfFourExecuted ==
    /\ RingExecuted
    /\ size = 4
    /\ \A a \in Servers(size) : Cardinality(TwoWay(a)) = 2

\* The ceil(N/2) indices spaced by two that start just after a, modulo N.
Spaced(a) ==
    {(a + 1 + 2 * k) % size : k \in 0..(((size + 1) \div 2) - 1)}

\* C28 as stated: after PartitionMajoritiesRing the link between two
\* different servers i and j is open both ways if j is one of the ceil(N/2)
\* evenly spaced indices that start just after i modulo N, and clogged both
\* ways otherwise.
C28_RingOpenIffSpaced ==
    RingExecuted =>
        \A i, j \in Servers(size) :
            i # j =>
                IF j \in Spaced(i)
                  THEN <<i, j>> \in connections /\ <<j, i>> \in connections
                  ELSE <<i, j>> \notin connections
                          /\ <<j, i>> \notin connections

\* C28, amended: after PartitionMajoritiesRing every link is open both ways
\* or clogged both ways; the link between i < j is open if and only if
\* j - i - 1 is one of the floor(N/2) distances selected; when N is even
\* these are the links between i and the N/2 indices spaced by two that
\* start just after i modulo N (N=4: i+1 and i+3; N=6: 0 is linked to
\* exactly 1, 3 and 5).
C28_RingOpenIffSelected ==
    RingExecuted =>
        /\ \A i, j \in Servers(size) :
              (<<i, j>> \in connections) <=> (<<j, i>> \in connections)
        /\ \A i, j \in Servers(size) :
              i < j => ((<<i, j>> \in connections)
                          <=> (j - i - 1 \in nemesis.selection))
        /\ size % 2 = 0 =>
              \A i \in Servers(size) : TwoWay(i) = Spaced(i)
        /\ size = 4 =>
              \A i \in Servers(size) :
                  TwoWay(i) = {(i + 1) % 4, (i + 3) % 4}

\* The ring of 6 has been executed: server 0 is linked to 1, 3 and 5.
C28_RingOfSixExecuted ==
    /\ RingExecuted
    /\ size = 6
    /\ TwoWay(0) = {1, 3, 5}
    /\ TwoWay(1) = {0, 2, 4}

\* C29: after PartitionMajoritiesRing every server keeps links both ways to
\* at least majority() - 1 = floor(N/2) other servers: with itself it forms
\* a majority of floor(N/2) + 1.
C29_RingKeepsMajority ==
    RingExecuted =>
        \A a \in Servers(size) :
            Cardinality(TwoWay(a) \cup {a}) >= (size \div 2) + 1

\* The ring of 5 has been executed and server 0 is left with no more than the
\* two links it needs.
C29_RingOfFiveExecuted ==
    /\ RingExecuted
    /\ size = 5
    /\ Cardinality(TwoWay(0)) = 2

\* The first floor(N/2) servers other than the leader.
BelowLeaderOrNext(leader) ==
    IF leader < size \div 2
      THEN (0..(size \div 2)) \ {leader}
      ELSE 0..((size \div 2) - 1)

\* C30: the record of PartitionLeaderAndMajority is exactly both directed
\* edges between the leader and each of the first floor(N/2) other servers
\* in ascending order; the links among the other servers are untouched, and
\* after the execution the leader has links both ways to fewer than
\* majority() servers.
C30_LeaderCutFromMajority ==
    nemesis.kind = "PartitionLeaderAndMajority" =>
        LET L == nemesis.leader
            cut == BelowLeaderOrNext(L)
        IN /\ record = Some({<<x, L>> : x \in cut} \cup {<<L, x>> : x \in cut})
           /\ nstate = "executed" =>
                 /\ \A a, b \in Servers(size) \ {L} :
                       a # b => <<a, b>> \in connections
                 /\ TwoWay(L) = Servers(size) \ (cut \cup {L})
                 /\ Cardinality(TwoWay(L)) < (size \div 2) + 1

\* The leader 1 of a cluster of 5 has been cut from the servers 0 and 2.
C30_LeaderOneOfFiveCut ==
    /\ nstate = "executed"
    /\ nemesis.kind = "PartitionLeaderAndMajority"
    /\ size = 5
    /\ nemesis.leader = 1
    /\ TwoWay(1) = {3, 4}

\* The servers that have a link to the server a.
CanSendTo(a) == {b \in Servers(size) \ {a} : <<b, a>> \in connections}

\* C31: the record of LeaderSendToMajorityButCannotReceive holds, for each of
\* the first floor(N/2) servers x other than the leader L in ascending order,
\* the edge x -> L only and never L -> x; after the execution fewer than
\* majority() servers can send to the leader, and every link from the leader
\* to another server is open.
C31_LeaderSendsButCannotReceive ==
    nemesis.kind = "LeaderSendToMajorityButCannotReceive" =>
        LET L == nemesis.leader
            cut == BelowLeaderOrNext(L)
        IN /\ record = Some({<<x, L>> : x \in cut})
           /\ \A x \in Servers(size) : <<L, x>> \notin record[1]
           /\ nstate = "executed" =>
                 /\ Cardinality(CanSendTo(L)) < (size \div 2) + 1
                 /\ CanSendTo(L) = Servers(size) \ (cut \cup {L})
                 /\ \A x \in Servers(size) \ {L} : <<L, x>> \in connections

\* The leader 2 of a cluster of 5 has been cut from what the servers 0 and 1
\* send, and can send to them.
C31_LeaderTwoOfFiveCannotReceive ==
    /\ nstate = "executed"
    /\ nemesis.kind = "LeaderSendToMajorityButCannotReceive"
    /\ size = 5
    /\ nemesis.leader = 2
    /\ CanSendTo(2) = {3, 4}
    /\ <<2, 0>> \in connections

\* C32: execute(Net r) clogs exactly the links a -> b with b in r[a] and
\* leaves every other directed link as it was, the link b -> a included when
\* it is not in r; execute(Noop) changes nothing; the executions accumulate:
\* a link is open if and only if no record executed so far holds it.
C32_ExecuteClogsExactlyTheRecord ==
    nstate = "ready" =>
        /\ connections =
              {e \in FullyConnected(size) :
                  \A k \in 1..Len(executions) :
                      executions[k].kind = "Noop"
                          \/ e \notin executions[k].net}
        /\ \A k \in 1..Len(executions) :
              executions[k].kind = "Net" =>
                  \A e \in executions[k].net :
                      (<<e[2], e[1]>> \in connections)
                          <=> \A j \in 1..Len(executions) :
                                  executions[j].kind = "Noop"
                                      \/ <<e[2], e[1]>> \notin executions[j].net

\* The links 0 -> 1 and 0 -> 2 and then the link 1 -> 2 have been clogged on
\* a cluster of 3: the links 1 -> 0, 2 -> 0 and 2 -> 1 are open.
C32_TwoRecordsExecutedOnThree ==
    /\ size = 3
    /\ executions = <<NetRecord({<<0, 1>>, <<0, 2>>}), NetRecord({<<1, 2>>})>>
    /\ connections = {<<1, 0>>, <<2, 0>>, <<2, 1>>}

\* The number of entries of the sequence log that are the record rec.
CountOf(log, rec) == Cardinality({k \in 1..Len(log) : log[k] = rec})

\* C34: when JepsenClient::run hands the history to the checker, the nemesis
\* register is empty and every record that was executed has been recovered
\* exactly once: as many recoveries as executions of each record.
C34_ExecutedRecordsRecoveredAtShutdown ==
    runPc = "checked" =>
        /\ register.queue = <<>>
        /\ \A k \in 1..Len(executions) :
              executions[k].kind # "Noop" =>
                  CountOf(recovered, executions[k])
                      = CountOf(executions, executions[k])

StreamOf(c) ==
    [j \in 1..Len(created[c].g.seq) |-> created[c].g.seq[j].op]

\* The elements of that child the group has returned, in the order in which
\* it returned them.
EmittedOf(c) == SelectSeq(EmittedOps, LAMBDA op : op \in OpsOf(c))

\* C36: under every strategy and with every quota positive, what the group
\* returns is an interleaving of the streams of its children: every element
\* returned is an element of a child, the elements of each child are returned
\* in the order of its stream, none twice, and all of them by the time the
\* group returns None.
C36_GroupEmitsAnInterleaving ==
    (gstate # "none" /\ \A c \in 1..Len(created) : created[c].total >= 1) =>
        /\ \A k \in 1..Len(emitted) :
              \E c \in 1..Len(created) : emitted[k].op \in OpsOf(c)
        /\ \A c \in 1..Len(created) :
              /\ Len(EmittedOf(c)) <= Len(StreamOf(c))
              /\ EmittedOf(c) = SubSeq(StreamOf(c), 1, Len(EmittedOf(c)))
              /\ gstate = "done" => EmittedOf(c) = StreamOf(c)

\* A Random group of three children has returned None after it returned an
\* element of a later child before an element of an earlier one.
C36_RandomGroupInterleavedAndDone ==
    /\ gstate = "done"
    /\ strategy.kind = "Random"
    /\ Len(created) = 3
    /\ \A c \in 1..Len(created) : created[c].total >= 1
    /\ Len(emitted) = MaxTotal
    /\ \E k \in 1..(Len(emitted) - 1) : emitted[k].op > emitted[k + 1].op

\* C37: under any interleaving of concurrent GeneratorId allocations and
\* releases no two live GeneratorIds hold the same id, the insert of alloc_id
\* always finds the id absent and the release in drop always finds it
\* present: neither debug assertion fails.
C37_LiveGeneratorIdsAreDistinct ==
    /\ \A t, u \in AllocThreads :
          (t # u /\ allocs.pc[t] = "live" /\ allocs.pc[u] = "live")
              => allocs.id[t] # allocs.id[u]
    /\ allocs.failed = {}

\* C38: after any sequence of the public operations of the group, whenever
\* the group is not empty `selected` is an index of one of its children, and
\* current() / current_mut() never fail with 'selected index should in the
\* range'.
C38_SelectedIsAnIndexOfTheGroup ==
    /\ (gstate # "none" /\ gens # <<>>) => selected \in 0..(Len(gens) - 1)
    /\ gstate # "panicked"

\* C39: no Net record that calculate_nemesis returns, for any NemesisType,
\* cluster size and leader, holds a self link: there is no server a with a
\* in Net[a].
C39_NoSelfLinkInNetRecord ==
    record # None => \A a \in Servers(size) : <<a, a>> \notin record[1]

\* Worker w is between two children of a Txn: it has called the adapter for
\* some child of its op and has a child left to call.
BetweenChildren(w) ==
    /\ lpc[w] \in {"cluster_lock", "call"}
    /\ called[w] # <<>>

====
